---- MODULE Spec2Model ----
(***************************************************************************)
(* Honeycomb: the in-process Sandbox container (lazy module construction   *)
(* behind a default-deny capability proxy, plugin wrappers) and the HC2    *)
(* control plane (certificate authority, service registry, client SDK).    *)
(*                                                                         *)
(* Each subsystem has its own specification over the shared variables:     *)
(*   SpecSandbox   src/core/index.js  Sandbox constructor, #declare        *)
(*   SpecPlugin    src/core/index.js  PluginProvider.applyPlugin           *)
(*   SpecRegistry  src/docker/hc2/index.js, src/unnamed/part_002,          *)
(*                 src/unnamed/part_003                                    *)
(*   SpecSDK       src/hc2/packages/cloud/proxy.js                         *)
(***************************************************************************)
EXTENDS Integers, Sequences, FiniteSets, TLC

(***************************************************************************)
(* Bounds of the model.                                                    *)
(***************************************************************************)
\* nesting depth of module constructions explored (constructors reading siblings)
MaxDepth == 2
\* factory invocations explored per module slot
MaxCalls == 2

VARIABLES
    \* ---- Sandbox container ----
    policies,       \* Sandbox.#policies: moduleName -> policy entry
    my,             \* the backing map's internal keys: my[`__${moduleName}`]
    factoryCalls,   \* how often factories[moduleName] has been invoked
    stack,          \* module constructors currently running (JS call stack)
    lastRead,       \* the last completed read of my[X]: who, what, outcome
    lastWrite,      \* the last assignment my[X] = v through a restricted view
    slots,          \* names with a lazy getter defined on `my` (Phase 2)
    bootstrapList,  \* modules whose definition has `bootstrap`, in list order
    booted,         \* how many entries of bootstrapList Phase 3 has gone through
    container,      \* `new Sandbox(...)`: "constructing", "returned", "started"
                    \* once the callback has been handed the sandbox, "threw"
    plugins,        \* #plugins: target name -> the plugin definition registered
    extended,       \* per module, the plugin whose wrappers its cached instance
                    \* carries
    \* ---- Plugin wrappers ----
    wrapped,        \* the last call of a plugin-wrapped method: inputs, trace, result
    \* ---- HC2 instance: certificate authority and service registry ----
    issued,         \* certificates generateServiceCert has returned
    serviceRegistry,\* HC2Instance.#serviceRegistry: the receipts, by receipt id
    services,       \* HC2Instance.#services: registered service names
    db,             \* the durable store: documents {_id, claims, receipt}
    last,           \* the last HTTP request to the instance and its response
    created,        \* receipts registerService has built so far (fresh ids)
    keyPair,        \* which key pair the running instance process generated
    feed,           \* the store's change feed: one change per insert and deletion
    clock,          \* the instance's system clock, in ms (what new Date() reads)
    \* ---- Gateway (hc2-proxy) ----
    cursor,         \* how many changes of the feed the gateway has been handed
    serviceProfiles,\* the gateway's serviceProfiles object, keys in insertion order
    profiles,       \* the last answer of GET /api/v1/profiles
    \* ---- Client SDK (HC2Proxy) ----
    proxyServices,  \* HC2Proxy.services: the service names the SDK knows
    servicesIsSet,  \* whether the public field hc2.services still holds a Set
    routeTable,     \* HC2Proxy.#INTERNAL_ROUTE_TABLE: serviceName -> api schema
    syncInfo,       \* what ready() has cached
    awaiting,       \* callers of ready() awaiting the profiles fetch in flight
    fetches,        \* how many GET /api/v1/profiles the SDK has issued
    returned,       \* the SyncInfos ready() has returned to its callers
    reply           \* the last SDK call and its outcome

sandboxVars == <<policies, my, factoryCalls, stack, lastRead, lastWrite, slots,
                 bootstrapList, booted,
                   container, plugins, extended>>

pluginVars == <<wrapped>>

registryVars == <<issued, serviceRegistry, services, db, last, created, keyPair, feed, clock>>

gatewayVars == <<cursor, serviceProfiles, profiles>>

sdkVars == <<proxyServices, servicesIsSet, routeTable, syncInfo, awaiting, fetches,
            returned, reply>>

\* what the actions of one subsystem leave alone
notSandbox == <<pluginVars, registryVars, sdkVars, gatewayVars>>
notPlugin == <<sandboxVars, registryVars, sdkVars, gatewayVars>>
notRegistry == <<sandboxVars, pluginVars, sdkVars, gatewayVars>>
notSDK == <<sandboxVars, pluginVars, registryVars, gatewayVars>>
notGateway == <<sandboxVars, pluginVars, registryVars, sdkVars>>

vars == <<policies, my, factoryCalls, stack, lastRead, lastWrite, slots,
          bootstrapList, booted, container, plugins, extended, wrapped,
          issued, serviceRegistry, services, db, last, created, keyPair, feed, clock,
          cursor, serviceProfiles, profiles,
          proxyServices, servicesIsSet, routeTable, syncInfo, awaiting, fetches,
          returned, reply>>

(***************************************************************************)
(*                 PLUGIN WRAPPERS (PluginProvider.applyPlugin)            *)
(***************************************************************************)

\* JavaScript values by kind: t is the kind, v the content (an array's elements,
\* each a string; one string for a string or an object's identity).
Val(t, v) == [t |-> t, v |-> v]
Undefined == Val("undefined", <<>>)
Null == Val("null", <<>>)
Str(s) == Val("string", <<s>>)
Num(n) == Val("number", <<n>>)
Obj(k) == Val("object", <<k>>)
Arr(items) == Val("array", items)
Err(msg) == Val("error", <<msg>>)

Return(v) == [kind |-> "return", val |-> v]
Throw(e) == [kind |-> "throw", val |-> e]

\* const isArray = (result) => Array.isArray(result)
isArray(result) == result.t = "array"
\* result !== null && typeof result === 'object' && !isArray(result)
isObject(result) == result.t = "object"
isUndefined(result) == result.t = "undefined"

\* Mutant: typeof null === 'object' passes for an object (the null test left out).
validatePluginOutputNullIsObject(input) ==
    IF isArray(input) \/ isObject(input) \/ isUndefined(input) \/ input = Null
    THEN Return(input)
    ELSE Throw(Err("TypeError"))

\* validatePluginOutput: returns its input, or throws a TypeError unless the
\* input is an array, a non-null object or undefined.
validatePluginOutput(input) ==
    IF isArray(input) \/ isObject(input) \/ isUndefined(input)
    THEN Return(input)
    ELSE Throw(Err("TypeError"))

\* original(...pluginResult): the elements of the array become the arguments
Spread(arr) == [i \in 1..Len(arr.v) |-> Str(arr.v[i])]

\* args.length === 1 && typeof args[0] === 'object' && args[0] !== null
\*   && !Array.isArray(args[0])
originalAcceptsOptionsObject(args) ==
    Len(args) = 1 /\ args[1].t = "object"

\* Mutant: an array result is forwarded as one argument instead of being spread.
modifiedArgsNoSpread(args, pluginResult) ==
    IF isUndefined(pluginResult) THEN Return(args)
    ELSE IF originalAcceptsOptionsObject(args) /\ ~isObject(pluginResult)
    THEN Throw(Err("TypeError"))
    ELSE IF ~originalAcceptsOptionsObject(args) /\ ~isArray(pluginResult)
    THEN Throw(Err("TypeError"))
    ELSE Return(<<pluginResult>>)

\* Mutant: the shape of the call is not compared with the shape of the result.
modifiedArgsUnchecked(args, pluginResult) ==
    IF isUndefined(pluginResult) THEN Return(args)
    ELSE IF isObject(pluginResult) THEN Return(<<pluginResult>>)
    ELSE Return(Spread(pluginResult))

\* pre_ex: the shape-matching rules, then `if (isObj) modifiedArgs = [pluginResult];
\* if (isArr) modifiedArgs = pluginResult`. Returns the arguments to forward, or
\* throws the TypeError of a shape mismatch.
modifiedArgs(args, pluginResult) ==
    IF isUndefined(pluginResult) THEN Return(args)
    ELSE IF originalAcceptsOptionsObject(args) /\ ~isObject(pluginResult)
    THEN Throw(Err("TypeError"))
    ELSE IF ~originalAcceptsOptionsObject(args) /\ ~isArray(pluginResult)
    THEN Throw(Err("TypeError"))
    ELSE IF isObject(pluginResult) THEN Return(<<pluginResult>>)
    ELSE Return(Spread(pluginResult))

\* One invocation made by a wrapper: which function, with which arguments.
Inv(fn, args) == [fn |-> fn, args |-> args]

Ran(trace, result) == [trace |-> trace, result |-> result]

\* Mutant: the catch of the override wrapper rethrows instead of falling back.
OverrideCallNoFallback(args, h, o1) ==
    LET out == IF h.kind = "return" THEN validatePluginOutput(h.val) ELSE h
    IN Ran(<<Inv("pluginHandler", args)>>, out)

\* mode === 'override':
\*   try { return validatePluginOutput(await pluginHandler(...args)) }
\*   catch (ex) { return await original(...args) }
\* h is what the handler does, o1 what the original does when it is invoked.
OverrideCall(args, h, o1) ==
    LET out == IF h.kind = "return" THEN validatePluginOutput(h.val) ELSE h
    IN IF out.kind = "return"
       THEN Ran(<<Inv("pluginHandler", args)>>, out)
       ELSE Ran(<<Inv("pluginHandler", args), Inv("original", args)>>, o1)

\* mode === 'pre_ex': the handler, the shape rules and the original all run inside
\* one try; its catch runs the original with the caller's args. o1 and o2 are what
\* the original does on its first and on its second invocation.
PreCall(args, h, o1, o2) ==
    LET out == IF h.kind = "return" THEN validatePluginOutput(h.val) ELSE h
        fwd == IF out.kind = "return" THEN modifiedArgs(args, out.val) ELSE out
    IN IF fwd.kind = "throw"
       THEN Ran(<<Inv("pluginHandler", args), Inv("original", args)>>, o1)
       ELSE IF o1.kind = "return"
       THEN Ran(<<Inv("pluginHandler", args), Inv("original", fwd.val)>>, o1)
       ELSE Ran(<<Inv("pluginHandler", args), Inv("original", fwd.val),
                  Inv("original", args)>>, o2)

\* mode === 'post_ex':
\*   const result = await original(...args);
\*   try { await pluginHandler(...args, result) } catch (ex) { return result }
\* and the function ends without a return statement after the try.
PostCall(args, h, o1) ==
    IF o1.kind = "throw"
    THEN Ran(<<Inv("original", args)>>, o1)
    ELSE LET t == <<Inv("original", args),
                    Inv("pluginHandler", Append(args, o1.val))>>
         IN IF h.kind = "throw" THEN Ran(t, o1) ELSE Ran(t, Return(Undefined))

\* Arguments the caller passes to the wrapped method.
ArgLists ==
    { <<>>, <<Str("host")>>, <<Str("a"), Str("b")>>, <<Obj("options")>>,
      <<Arr(<<"x">>)>>, <<Null>> }

\* What the plugin handler does: returns a value, or throws.
HandlerOutcomes ==
    { Return(Undefined), Return(Null), Return(Str("text")), Return(Num("1")),
      Return(Obj("patched")), Return(Arr(<<"smelly host", "yo mama">>)),
      Return(Arr(<<>>)), Throw(Err("uh oh")) }

\* What the target's original method does: returns a value, or throws.
OriginalOutcomes ==
    { Return(Str("hello")), Return(Undefined), Throw(Err("original failed")) }

NoCall ==
    [mode |-> "none", args |-> <<>>, h |-> Return(Undefined),
     o1 |-> Return(Undefined), o2 |-> Return(Undefined),
     trace |-> <<>>, result |-> Return(Undefined)]

Called(mode, args, h, o1, o2, ran) ==
    [mode |-> mode, args |-> args, h |-> h, o1 |-> o1, o2 |-> o2,
     trace |-> ran.trace, result |-> ran.result]

CallOverride ==
    /\ UNCHANGED notPlugin
    /\ \E args \in ArgLists, h \in HandlerOutcomes, o1 \in OriginalOutcomes :
        wrapped' = Called("override", args, h, o1, o1, OverrideCall(args, h, o1))

CallPre ==
    /\ UNCHANGED notPlugin
    /\ \E args \in ArgLists, h \in HandlerOutcomes, o1, o2 \in OriginalOutcomes :
        wrapped' = Called("pre_ex", args, h, o1, o2, PreCall(args, h, o1, o2))

CallPost ==
    /\ UNCHANGED notPlugin
    /\ \E args \in ArgLists, h \in HandlerOutcomes, o1 \in OriginalOutcomes :
        wrapped' = Called("post_ex", args, h, o1, o1, PostCall(args, h, o1))

\* No wrapped method has been called; the container is as constructed, with an
\* empty policy object and nothing read yet.
InitPlugin ==
    /\ wrapped = NoCall
    /\ policies = [m \in {"A", "B"} |-> [has |-> FALSE, allowedAPIs |-> {}]]
    /\ my = [m \in {"A", "B"} |-> 0]
    /\ factoryCalls = [m \in {"A", "B"} |-> 0]
    /\ stack = <<>>
    /\ lastRead = [by |-> "none", name |-> "none", result |-> "none", inst |-> 0]
    /\ lastWrite = [by |-> "none", name |-> "none", result |-> "none"]
    /\ slots = {"A", "B"}
    /\ bootstrapList = <<>>
    /\ booted = 0
    /\ container = "started"
    /\ plugins = [m \in {"A", "B"} |-> [kind |-> "none", target |-> Undefined, mode |-> Undefined]]
    /\ extended = [m \in {"A", "B"} |-> [kind |-> "none", target |-> Undefined, mode |-> Undefined]]
    /\ issued = {}
    /\ serviceRegistry = <<>>
    /\ services = {}
    /\ db = {}
    /\ last = [op |-> "none", req |-> <<>>, status |-> 0, problem |-> "", body |-> <<>>]
    /\ created = 0
    /\ keyPair = 0
    /\ feed = <<>>
    /\ clock = 0
    /\ cursor = 0
    /\ serviceProfiles = <<>>
    /\ profiles = <<>>
    /\ proxyServices = {}
    /\ servicesIsSet = TRUE
    /\ routeTable = <<>>
    /\ syncInfo = [status |-> "none", services |-> {}, readyAt |-> 0]
    /\ awaiting = 0
    /\ fetches = 0
    /\ returned = {}
    /\ reply = [op |-> "none"]

NextPlugin ==
    \/ CallOverride
    \/ CallPre
    \/ CallPost

SpecPlugin == InitPlugin /\ [][NextPlugin]_vars

(***************************************************************************)
(* Plugin wrapper claims                                                   *)
(***************************************************************************)

\* C7 as stated: in post mode the wrapper calls the original with the caller's
\* args, then the handler with (args..., result), and returns the original's
\* result whether the handler returns normally or throws.
C7_PostPreservesResult ==
    (wrapped.mode = "post_ex" /\ wrapped.o1.kind = "return") =>
        /\ wrapped.trace =
              << Inv("original", wrapped.args),
                 Inv("pluginHandler", Append(wrapped.args, wrapped.o1.val)) >>
        /\ wrapped.result = wrapped.o1

\* C8 as stated: in override mode, whenever the handler returns without throwing,
\* whatever it returns, the original is not invoked and the handler's value is
\* the result.
C8_OverrideAnyValue ==
    (wrapped.mode = "override" /\ wrapped.h.kind = "return") =>
        /\ wrapped.result = wrapped.h
        /\ \A i \in 1..Len(wrapped.trace) : wrapped.trace[i].fn # "original"

\* The handler's return value is one the framework accepts.
AcceptedReturn(h) ==
    h.kind = "return" /\ h.val.t \in {"array", "object", "undefined"}

\* C8 amended: in override mode the handler is called instead of the original:
\* whenever it returns an array, a non-null object or undefined, the original is
\* not invoked and the handler's value is the result; the original is invoked
\* (with the caller's args, and its outcome is the call's outcome) only when the
\* handler throws or returns a value of any other type.
C8_OverrideAcceptedValue ==
    wrapped.mode = "override" =>
        IF AcceptedReturn(wrapped.h)
        THEN /\ wrapped.trace = <<Inv("pluginHandler", wrapped.args)>>
             /\ wrapped.result = wrapped.h
        ELSE /\ wrapped.trace = << Inv("pluginHandler", wrapped.args),
                                   Inv("original", wrapped.args) >>
             /\ wrapped.result = wrapped.o1

\* C8 witness: an override handler returned an object and the call returned it
\* although the original would have returned something else.
C8_Witness ==
    /\ wrapped.mode = "override"
    /\ wrapped.h = Return(Obj("patched"))
    /\ wrapped.result = Return(Obj("patched"))
    /\ wrapped.o1 = Return(Str("hello"))
    /\ Len(wrapped.trace) = 1

\* C9: pre-mode forwarding. The handler is called with the caller's args. If it
\* returns an array and the call was positional, the original is invoked with
\* the array's elements as its positional args; if it returns an object and the
\* call was a single non-array object, with that object as its single argument;
\* if it returns undefined, with the caller's args. In each case the value the
\* original returns is the value of the call.
C9_PreForwarding ==
    (wrapped.mode = "pre_ex" /\ wrapped.h.kind = "return") =>
        LET r == wrapped.h.val
            positional == ~originalAcceptsOptionsObject(wrapped.args)
            forwarded ==
                IF isUndefined(r) THEN wrapped.args
                ELSE IF isArray(r) THEN Spread(r)
                ELSE <<r>>
        IN (\/ isUndefined(r)
            \/ isArray(r) /\ positional
            \/ isObject(r) /\ ~positional) =>
               /\ Len(wrapped.trace) >= 2
               /\ wrapped.trace[1] = Inv("pluginHandler", wrapped.args)
               /\ wrapped.trace[2] = Inv("original", forwarded)
               /\ (wrapped.o1.kind = "return" =>
                      /\ Len(wrapped.trace) = 2
                      /\ wrapped.result = wrapped.o1)

\* C9 witness: hello('host') with a handler returning ['smelly host', 'yo mama']:
\* the original ran with those two positional args and its value was returned.
C9_Witness ==
    /\ wrapped.mode = "pre_ex"
    /\ wrapped.args = <<Str("host")>>
    /\ wrapped.h = Return(Arr(<<"smelly host", "yo mama">>))
    /\ wrapped.trace = << Inv("pluginHandler", <<Str("host")>>),
                          Inv("original", <<Str("smelly host"), Str("yo mama")>>) >>
    /\ wrapped.result = Return(Str("hello"))

\* C10: in pre and override mode a throwing handler does not fail the call: the
\* original is invoked, once, with the caller's original args and the outcome of
\* that invocation is the outcome of the wrapped call.
C10_HandlerFailureFallsBack ==
    (wrapped.mode \in {"pre_ex", "override"} /\ wrapped.h.kind = "throw") =>
        /\ wrapped.trace = << Inv("pluginHandler", wrapped.args),
                              Inv("original", wrapped.args) >>
        /\ wrapped.result = wrapped.o1

\* C10 witness: an override handler threw on a call with arguments and the call
\* returned what the original returned.
C10_Witness ==
    /\ wrapped.mode = "override"
    /\ wrapped.h.kind = "throw"
    /\ wrapped.args = <<Str("a"), Str("b")>>
    /\ wrapped.result = Return(Str("hello"))

\* The handler's value does not have the shape of the call: the call passed one
\* options object and the value is not a non-array object, or the call was
\* positional and the value is not an array; undefined matches both.
ShapeMismatch(args, r) ==
    /\ ~isUndefined(r)
    /\ IF originalAcceptsOptionsObject(args) THEN ~isObject(r) ELSE ~isArray(r)

\* C35: pre-mode shape rule. When the handler returns a value whose shape does
\* not match the call, the wrapper path is abandoned: the value is not forwarded
\* to the original, which is invoked with the caller's args and decides the
\* outcome of the call.
C35_ShapeMismatchAborts ==
    (/\ wrapped.mode = "pre_ex"
     /\ wrapped.h.kind = "return"
     /\ ShapeMismatch(wrapped.args, wrapped.h.val)) =>
        /\ wrapped.trace = << Inv("pluginHandler", wrapped.args),
                              Inv("original", wrapped.args) >>
        /\ wrapped.result = wrapped.o1

\* C35 witness: the target was called with one options object and the handler
\* returned an array; the original ran with the options object.
C35_Witness ==
    /\ wrapped.mode = "pre_ex"
    /\ wrapped.args = <<Obj("options")>>
    /\ wrapped.h = Return(Arr(<<"smelly host", "yo mama">>))
    /\ wrapped.trace = << Inv("pluginHandler", <<Obj("options")>>),
                          Inv("original", <<Obj("options")>>) >>
    /\ wrapped.result = Return(Str("hello"))

\* The invocations of the target's original method in a trace.
OriginalRuns(trace) == { i \in 1..Len(trace) : trace[i].fn = "original" }

\* C36 as stated: each call of a plugin-wrapped method invokes the original at
\* most once, in every mode and on every path; a failure of the original is not
\* answered by running the original again.
C36_OriginalAtMostOnce ==
    Cardinality(OriginalRuns(wrapped.trace)) <= 1

(***************************************************************************)
(*                          SANDBOX CONTAINER                              *)
(***************************************************************************)

\* Module names with a definition in Sandbox.modules that the host requested:
\* each gets a factory and a lazy getter on `my`.
Modules == {"A", "B"}

\* Property names read on `my`; "Z" is a name with no registered module.
Names == Modules \cup {"Z"}

Host == "host"

\* The policy object handed to the constructor: per module either no entry,
\* or an entry { allowedAPIs: [...] }.
PolicyEntries ==
    {[has |-> FALSE, allowedAPIs |-> {}]}
        \cup {[has |-> TRUE, allowedAPIs |-> S] : S \in SUBSET Names}

\* Mutant: a missing policy entry grants every name (default allow).
allowedSetDefaultAllow(moduleId) ==
    IF policies[moduleId].has THEN policies[moduleId].allowedAPIs ELSE Names

\* Mutant: a module may always read its own slot.
allowedSetWithSelf(moduleId) ==
    (IF policies[moduleId].has THEN policies[moduleId].allowedAPIs ELSE {})
        \cup {moduleId}

\* #declare: (this.#policies[moduleId] && this.#policies[moduleId].allowedAPIs) || []
allowedSet(moduleId) ==
    IF policies[moduleId].has THEN policies[moduleId].allowedAPIs ELSE {}

\* Object.prototype.hasOwnProperty.call(my, prop): Phase 2 defines a getter for
\* each factory and for nothing else.
hasOwnProperty(prop) == prop \in slots

NoRead == [by |-> "none", name |-> "none", result |-> "none", inst |-> 0]

NoWrite == [by |-> "none", name |-> "none", result |-> "none"]

\* targets with a registered plugin in one run
MaxPlugins == 1

\* No plugin: the value of #plugins[name] for a name nobody registered for.
NoPlugin == [kind |-> "none", target |-> Undefined, mode |-> Undefined]

\* What a caller can hand to plugin(): a class or something that is not a
\* function, with a static target (a module name, an array holding one, or none)
\* and a static mode (supported, unsupported, or none).
PluginDefinitions ==
    [kind : {"class", "object"},
     target : {Str("A"), Str("B"), Arr(<<"A">>), Undefined},
     mode : {Str("pre_ex"), Str("override"), Str("around"), Undefined}]

SUPPORTED_PLUGIN_EXECUTION_MODE == {Str("pre_ex"), Str("post_ex"), Str("override")}

\* Mutant: the target must be a string.
validatePluginStringTarget(PluginDefinition) ==
    /\ PluginDefinition.kind = "class"
    /\ PluginDefinition.target.t = "string"
    /\ PluginDefinition.mode \in SUPPORTED_PLUGIN_EXECUTION_MODE

\* PluginProvider.validatePlugin: typeof PluginDefinition === 'function', a
\* truthy static target, and a static mode among the supported ones.
validatePlugin(PluginDefinition) ==
    /\ PluginDefinition.kind = "class"
    /\ PluginDefinition.target # Undefined
    /\ PluginDefinition.mode \in SUPPORTED_PLUGIN_EXECUTION_MODE

\* this.#plugins[PluginDefinition.target]: the property key of a target, String()
\* of it; String(['A']) is 'A'.
toPropertyKey(target) == target.v[1]

ReadResult(by, name, result, inst) ==
    [by |-> by, name |-> name, result |-> result, inst |-> inst]

\* What the lazy getter returns once the factory call is over: my[internalKey]
GetterValue(reader, moduleName, cache) ==
    IF cache[moduleName] = 0
    THEN ReadResult(reader, moduleName, "undefined", 0)
    ELSE ReadResult(reader, moduleName, "instance", cache[moduleName])

\* The lazy getter defined in Phase 2 for a registered module.
\*   if (!my[internalKey]) { try { my[internalKey] = factory() } catch { log } }
\*   return my[internalKey]
\* The factory runs the module constructor, which is a frame pushed on the stack;
\* it ends in CtorReturn or CtorThrow.
Getter(reader, moduleName) ==
    IF my[moduleName] # 0
    THEN /\ lastRead' = GetterValue(reader, moduleName, my)
         /\ UNCHANGED <<policies, my, factoryCalls, stack>>
    ELSE /\ Len(stack) < MaxDepth
         /\ factoryCalls[moduleName] < MaxCalls
         /\ factoryCalls' = [factoryCalls EXCEPT ![moduleName] = @ + 1]
         /\ stack' = Append(stack, [mod |-> moduleName, reader |-> reader,
                                    inst |-> factoryCalls[moduleName] + 1])
         /\ UNCHANGED <<policies, my, lastRead>>

\* The constructor has gone through Phase 2 and Phase 3; the callback it
\* schedules with setTimeout(..., 0) runs after that.
ContainerStarted ==
    slots = Modules /\ booted = Len(bootstrapList) /\ container = "started"

\* Mutant: the callback is handed a restricted view; the host has no policy
\* entry, so every read is refused.
HostReadRestricted(X) ==
    /\ UNCHANGED notSandbox
    /\ UNCHANGED <<policies, my, factoryCalls, stack, lastWrite, slots, bootstrapList,
                   booted, container, plugins, extended>>
    /\ ContainerStarted
    /\ stack = <<>>
    /\ lastRead' = ReadResult(Host, X, "POLICY_ERROR", 0)

\* The host callback reads fullSandbox.my[X]: the unrestricted backing object.
HostRead(X) ==
    /\ UNCHANGED notSandbox
    /\ UNCHANGED <<lastWrite, slots, bootstrapList, booted,
                   container, plugins, extended>>
    /\ ContainerStarted
    /\ stack = <<>>
    /\ IF hasOwnProperty(X)
       THEN Getter(Host, X)
       ELSE /\ lastRead' = ReadResult(Host, X, "undefined", 0)
            /\ UNCHANGED <<policies, my, factoryCalls, stack>>

\* Code of module M is running: its constructor is the innermost frame, or M is
\* constructed and one of its methods or listeners has been entered.
Running(M) ==
    \/ stack # <<>> /\ stack[Len(stack)].mod = M
    \/ my[M] # 0

\* Mutant: the get trap looks the name up before it consults the policy.
RestrictedReadLookupFirst(M, X) ==
    /\ UNCHANGED notSandbox
    /\ UNCHANGED <<lastWrite, slots, bootstrapList, booted,
                   container, plugins, extended>>
    /\ Running(M)
    /\ IF ~hasOwnProperty(X)
       THEN /\ lastRead' = ReadResult(M, X, "INTERNAL_ERROR", 0)
            /\ UNCHANGED <<policies, my, factoryCalls, stack>>
       ELSE IF X \notin allowedSet(M)
       THEN /\ lastRead' = ReadResult(M, X, "POLICY_ERROR", 0)
            /\ UNCHANGED <<policies, my, factoryCalls, stack>>
       ELSE Getter(M, X)

\* Values a module can try to assign: nothing (0) or an instance of its own.
WriteValues == {0, MaxCalls + 1}

\* Mutant: the set trap lets a module assign the slots its policy permits.
setTrapAllowListed(moduleId, prop, v) ==
    IF prop \in allowedSet(moduleId) /\ prop \in DOMAIN my
    THEN [threw |-> "none", my |-> [my EXCEPT ![prop] = v]]
    ELSE [threw |-> "POLICY_ERROR", my |-> my]

\* The set trap of the restricted `my` Proxy: it throws for every property and
\* every value; the backing object is what it was.
setTrap(moduleId, prop, v) == [threw |-> "POLICY_ERROR", my |-> my]

\* Code of module M assigns my[X] = v through its restricted view.
RestrictedWrite(M, X) ==
    /\ UNCHANGED notSandbox
    /\ UNCHANGED <<policies, factoryCalls, stack, lastRead, slots, bootstrapList,
                   booted,
                   container, plugins, extended>>
    /\ Running(M)
    /\ \E v \in WriteValues :
        /\ my' = setTrap(M, X, v).my
        /\ lastWrite' = [by |-> M, name |-> X, result |-> setTrap(M, X, v).threw]

\* The get trap of the restricted `my` Proxy that #declare gave module M.
RestrictedRead(M, X) ==
    /\ UNCHANGED notSandbox
    /\ UNCHANGED <<lastWrite, slots, bootstrapList, booted,
                   container, plugins, extended>>
    /\ Running(M)
    /\ IF X \notin allowedSet(M)
       THEN /\ lastRead' = ReadResult(M, X, "POLICY_ERROR", 0)
            /\ UNCHANGED <<policies, my, factoryCalls, stack>>
       ELSE IF ~hasOwnProperty(X)
       THEN /\ lastRead' = ReadResult(M, X, "INTERNAL_ERROR", 0)
            /\ UNCHANGED <<policies, my, factoryCalls, stack>>
       ELSE Getter(M, X)

\* Mutant: the factory returns the instance without looking at #plugins.
appliedPluginNever(moduleName, applyPluginThrows) == NoPlugin

\* The factory after `new Module(declared)`: the plugin registered for the module
\* is applied to the instance; when applyPlugin throws (the plugin's constructor
\* threw) the catch logs and the instance is returned as it is.
appliedPlugin(moduleName, applyPluginThrows) ==
    IF plugins[moduleName] # NoPlugin /\ ~applyPluginThrows
    THEN plugins[moduleName]
    ELSE NoPlugin

\* The reader name of the plugin instance attached to a module.
PluginOf == [m \in Modules |-> "plugin of " \o m]

\* Mutant: the plugin is constructed with the unrestricted sandbox.
PluginReadFullSandbox(M, X) ==
    /\ UNCHANGED notSandbox
    /\ UNCHANGED <<lastWrite, slots, bootstrapList, booted, container, plugins,
                   extended>>
    /\ extended[M] # NoPlugin
    /\ IF hasOwnProperty(X)
       THEN Getter(PluginOf[M], X)
       ELSE /\ lastRead' = ReadResult(PluginOf[M], X, "undefined", 0)
            /\ UNCHANGED <<policies, my, factoryCalls, stack>>

\* A handler of the plugin attached to module M reads my[X]. applyPlugin
\* constructs the plugin with declaredSandbox, the object #declare made for M:
\* the read goes through M's get trap, with M's allow-set.
PluginRead(M, X) ==
    /\ UNCHANGED notSandbox
    /\ UNCHANGED <<lastWrite, slots, bootstrapList, booted, container, plugins,
                   extended>>
    /\ extended[M] # NoPlugin
    /\ IF X \notin allowedSet(M)
       THEN /\ lastRead' = ReadResult(PluginOf[M], X, "POLICY_ERROR", 0)
            /\ UNCHANGED <<policies, my, factoryCalls, stack>>
       ELSE IF ~hasOwnProperty(X)
       THEN /\ lastRead' = ReadResult(PluginOf[M], X, "INTERNAL_ERROR", 0)
            /\ UNCHANGED <<policies, my, factoryCalls, stack>>
       ELSE Getter(PluginOf[M], X)

\* The innermost constructor returns: the factory applies the plugin and returns
\* the instance; the getter stores it under the internal key and returns it.
CtorReturn ==
    /\ stack # <<>>
    /\ LET f == stack[Len(stack)]
           cache == [my EXCEPT ![f.mod] = f.inst]
       IN /\ my' = cache
          /\ stack' = SubSeq(stack, 1, Len(stack) - 1)
          /\ lastRead' = GetterValue(f.reader, f.mod, cache)
          /\ \E applyPluginThrows \in BOOLEAN :
                extended' = [extended EXCEPT
                                ![f.mod] = appliedPlugin(f.mod, applyPluginThrows)]
    /\ UNCHANGED <<policies, factoryCalls, lastWrite, slots, bootstrapList, booted,
                   container, plugins>>
    /\ UNCHANGED notSandbox

\* Mutant: nothing catches the exception of a constructor. While the container
\* is being constructed it unwinds every frame and `new Sandbox(...)` throws;
\* later it unwinds to the host.
CtorThrowPropagates ==
    /\ stack # <<>>
    /\ stack' = <<>>
    /\ lastRead' = ReadResult(stack[1].reader, stack[1].mod, "threw", 0)
    /\ container' = IF container = "constructing" THEN "threw" ELSE container
    /\ UNCHANGED <<policies, my, factoryCalls, lastWrite, slots, bootstrapList, booted,
                   plugins, extended>>
    /\ UNCHANGED notSandbox

\* The innermost constructor throws: the getter logs and returns my[internalKey]
\* as it stands.
CtorThrow ==
    /\ stack # <<>>
    /\ LET f == stack[Len(stack)]
       IN /\ stack' = SubSeq(stack, 1, Len(stack) - 1)
          /\ lastRead' = GetterValue(f.reader, f.mod, my)
    /\ UNCHANGED <<policies, my, factoryCalls, lastWrite, slots, bootstrapList, booted,
                   container, plugins, extended>>
    /\ UNCHANGED notSandbox

InitSandbox ==
    /\ policies \in [Modules -> PolicyEntries]
    /\ my = [m \in Modules |-> 0]
    /\ factoryCalls = [m \in Modules |-> 0]
    /\ stack = <<>>
    /\ lastRead = NoRead
    /\ lastWrite = NoWrite
    /\ slots = Modules
    /\ bootstrapList = <<>>
    /\ booted = 0
    /\ container = "started"
    /\ plugins = [m \in {"A", "B"} |-> [kind |-> "none", target |-> Undefined, mode |-> Undefined]]
    /\ extended = [m \in {"A", "B"} |-> [kind |-> "none", target |-> Undefined, mode |-> Undefined]]
    /\ wrapped = NoCall
    /\ issued = {}
    /\ serviceRegistry = <<>>
    /\ services = {}
    /\ db = {}
    /\ last = [op |-> "none", req |-> <<>>, status |-> 0, problem |-> "", body |-> <<>>]
    /\ created = 0
    /\ keyPair = 0
    /\ feed = <<>>
    /\ clock = 0
    /\ cursor = 0
    /\ serviceProfiles = <<>>
    /\ profiles = <<>>
    /\ proxyServices = {}
    /\ servicesIsSet = TRUE
    /\ routeTable = <<>>
    /\ syncInfo = [status |-> "none", services |-> {}, readyAt |-> 0]
    /\ awaiting = 0
    /\ fetches = 0
    /\ returned = {}
    /\ reply = [op |-> "none"]

NextSandbox ==
    \/ \E X \in Names : HostRead(X)
    \/ \E M \in Modules, X \in Names : RestrictedRead(M, X)
    \/ CtorReturn
    \/ CtorThrow

SpecSandbox == InitSandbox /\ [][NextSandbox]_vars

\* The policy object the host constructs the container with in the runs of
\* SpecPolicy: an entry with an empty list for A, no entry for B.
ConstructedPolicies == [m \in Modules |-> [has |-> m = "A", allowedAPIs |-> {}]]

\* After construction the host pushes a name onto the allowedAPIs array of an
\* entry of the object it passed in. The constructor copied the object with
\* Object.assign({}, policies): the entries, and their arrays, are shared.
\* #declare copies the array when it builds a view, so a view built earlier
\* keeps its set: the host pushes here only while the module has no view.
HostPush(M, X) ==
    /\ policies[M].has
    /\ X \notin policies[M].allowedAPIs
    /\ my[M] = 0
    /\ \A i \in 1..Len(stack) : stack[i].mod # M
    /\ policies' = [policies EXCEPT ![M].allowedAPIs = @ \cup {X}]
    /\ UNCHANGED <<my, factoryCalls, stack, lastRead, lastWrite, slots, bootstrapList,
                   booted, container, plugins, extended>>
    /\ UNCHANGED notSandbox

InitPolicy ==
    /\ policies = [m \in {"A", "B"} |-> [has |-> m = "A", allowedAPIs |-> {}]]
    /\ my = [m \in Modules |-> 0]
    /\ factoryCalls = [m \in Modules |-> 0]
    /\ stack = <<>>
    /\ lastRead = NoRead
    /\ lastWrite = NoWrite
    /\ slots = Modules
    /\ bootstrapList = <<>>
    /\ booted = 0
    /\ container = "started"
    /\ plugins = [m \in {"A", "B"} |-> [kind |-> "none", target |-> Undefined, mode |-> Undefined]]
    /\ extended = [m \in {"A", "B"} |-> [kind |-> "none", target |-> Undefined, mode |-> Undefined]]
    /\ wrapped = NoCall
    /\ issued = {}
    /\ serviceRegistry = <<>>
    /\ services = {}
    /\ db = {}
    /\ last = [op |-> "none", req |-> <<>>, status |-> 0, problem |-> "", body |-> <<>>]
    /\ created = 0
    /\ keyPair = 0
    /\ feed = <<>>
    /\ clock = 0
    /\ cursor = 0
    /\ serviceProfiles = <<>>
    /\ profiles = <<>>
    /\ proxyServices = {}
    /\ servicesIsSet = TRUE
    /\ routeTable = <<>>
    /\ syncInfo = [status |-> "none", services |-> {}, readyAt |-> 0]
    /\ awaiting = 0
    /\ fetches = 0
    /\ returned = {}
    /\ reply = [op |-> "none"]

NextPolicy ==
    \/ \E M \in Modules, X \in Names : HostPush(M, X)
    \/ \E X \in Names : HostRead(X)
    \/ \E M \in Modules, X \in Names : RestrictedRead(M, X)
    \/ CtorReturn
    \/ CtorThrow

\* The started container with a host that keeps writing to the policy object.
SpecPolicy == InitPolicy /\ [][NextPolicy]_vars

\* Container start. Phase 2 defines the lazy getters one factory at a time, in
\* the order of the modules list.
DefineSlot ==
    /\ UNCHANGED notSandbox
    /\ container = "constructing"
    /\ slots # Modules
    /\ \E moduleName \in Modules \ slots : slots' = slots \cup {moduleName}
    /\ UNCHANGED <<policies, my, factoryCalls, stack, lastRead, lastWrite,
                   bootstrapList, booted,
                   container, plugins, extended>>

\* Mutant: bootstrap modules are instantiated while the getters are still
\* being defined.
Phase3WhileDefining == TRUE

\* Phase 3 follows Phase 2 in the constructor: its forEach starts when the
\* forEach of Phase 2 is over.
Phase3 == slots = Modules

\* Phase 3, one turn of bootstrapList.forEach: fullSandbox.my[moduleName] read
\* on the unrestricted object, inside try/catch. The next turn starts when the
\* read is over (the stack is empty again).
Bootstrap ==
    /\ UNCHANGED notSandbox
    /\ UNCHANGED <<lastWrite, slots, bootstrapList, container, plugins, extended>>
    /\ container = "constructing"
    /\ Phase3
    /\ stack = <<>>
    /\ booted < Len(bootstrapList)
    /\ booted' = booted + 1
    /\ LET moduleName == bootstrapList[booted + 1]
       IN IF hasOwnProperty(moduleName)
          THEN Getter(Host, moduleName)
          ELSE /\ lastRead' = ReadResult(Host, moduleName, "undefined", 0)
               /\ UNCHANGED <<policies, my, factoryCalls, stack>>

\* Phase 3 is over: setTimeout(() => callback(fullSandbox), 0) is scheduled and
\* the constructor returns {dispatchEvent, plugin} to the code that called it.
ConstructorReturn ==
    /\ UNCHANGED notSandbox
    /\ container = "constructing"
    /\ Phase3
    /\ booted = Len(bootstrapList)
    /\ stack = <<>>
    /\ container' = "returned"
    /\ UNCHANGED <<policies, my, factoryCalls, stack, lastRead, lastWrite, slots,
                   bootstrapList, booted, plugins, extended>>

\* The timer fires once the code that called the constructor has run to its
\* end: the callback is handed the unrestricted sandbox.
Callback ==
    /\ UNCHANGED notSandbox
    /\ container = "returned"
    /\ container' = "started"
    /\ UNCHANGED <<policies, my, factoryCalls, stack, lastRead, lastWrite, slots,
                   bootstrapList, booted, plugins, extended>>

\* app.plugin(PluginDefinition), Sandbox.#plugin: called on the object the
\* constructor returned, by the code that called the constructor and before the
\* timer fires (as the host wiring does). An invalid definition is dropped.
RegisterPlugin ==
    /\ UNCHANGED notSandbox
    /\ container = "returned"
    /\ Cardinality({m \in Modules : plugins[m] # NoPlugin}) < MaxPlugins
    /\ \E PluginDefinition \in PluginDefinitions :
        plugins' = IF validatePlugin(PluginDefinition)
                   THEN [plugins EXCEPT ![toPropertyKey(PluginDefinition.target)] =
                                            PluginDefinition]
                   ELSE plugins
    /\ UNCHANGED <<policies, my, factoryCalls, stack, lastRead, lastWrite, slots,
                   bootstrapList, booted, container, extended>>

\* Lists of modules declaring `static bootstrap = true`, in list order.
BootstrapLists ==
    {<<>>} \cup {<<m>> : m \in Modules}
           \cup {<<l[1], l[2]>> : l \in {p \in Modules \X Modules : p[1] # p[2]}}

\* The constructor after Phase 1: factories exist, `my` is empty.
InitBoot ==
    /\ policies \in [Modules -> PolicyEntries]
    /\ my = [m \in Modules |-> 0]
    /\ factoryCalls = [m \in Modules |-> 0]
    /\ stack = <<>>
    /\ lastRead = NoRead
    /\ lastWrite = NoWrite
    /\ slots = {}
    /\ bootstrapList \in BootstrapLists
    /\ booted = 0
    /\ container = "constructing"
    /\ plugins = [m \in {"A", "B"} |-> [kind |-> "none", target |-> Undefined, mode |-> Undefined]]
    /\ extended = [m \in {"A", "B"} |-> [kind |-> "none", target |-> Undefined, mode |-> Undefined]]
    /\ wrapped = NoCall
    /\ issued = {}
    /\ serviceRegistry = <<>>
    /\ services = {}
    /\ db = {}
    /\ last = [op |-> "none", req |-> <<>>, status |-> 0, problem |-> "", body |-> <<>>]
    /\ created = 0
    /\ keyPair = 0
    /\ feed = <<>>
    /\ clock = 0
    /\ cursor = 0
    /\ serviceProfiles = <<>>
    /\ profiles = <<>>
    /\ proxyServices = {}
    /\ servicesIsSet = TRUE
    /\ routeTable = <<>>
    /\ syncInfo = [status |-> "none", services |-> {}, readyAt |-> 0]
    /\ awaiting = 0
    /\ fetches = 0
    /\ returned = {}
    /\ reply = [op |-> "none"]

NextBoot ==
    \/ DefineSlot
    \/ Bootstrap
    \/ ConstructorReturn
    \/ Callback
    \/ \E M \in Modules, X \in Names : RestrictedRead(M, X)
    \/ CtorReturn
    \/ CtorThrow

SpecBoot == InitBoot /\ [][NextBoot]_vars

\* Container start with its scheduling: both forEach loops advance, the timer
\* fires, and a constructor that was entered returns or throws.
SpecBootLive ==
    /\ SpecBoot
    /\ WF_vars(DefineSlot)
    /\ WF_vars(Bootstrap)
    /\ WF_vars(ConstructorReturn)
    /\ WF_vars(Callback)
    /\ WF_vars(CtorReturn \/ CtorThrow)

\* The container from its construction on, with plugins: the code that called
\* the constructor registers plugins, then the callback runs.
NextExtend ==
    \/ DefineSlot
    \/ Bootstrap
    \/ ConstructorReturn
    \/ RegisterPlugin
    \/ Callback
    \/ \E X \in Names : HostRead(X)
    \/ CtorReturn
    \/ CtorThrow

SpecExtend == InitBoot /\ [][NextExtend]_vars

\* A container without bootstrap modules whose constructor has just returned.
InitReturned ==
    /\ policies \in [Modules -> PolicyEntries]
    /\ my = [m \in Modules |-> 0]
    /\ factoryCalls = [m \in Modules |-> 0]
    /\ stack = <<>>
    /\ lastRead = NoRead
    /\ lastWrite = NoWrite
    /\ slots = Modules
    /\ bootstrapList = <<>>
    /\ booted = 0
    /\ container = "returned"
    /\ plugins = [m \in Modules |-> NoPlugin]
    /\ extended = [m \in Modules |-> NoPlugin]
    /\ wrapped = NoCall
    /\ issued = {}
    /\ serviceRegistry = <<>>
    /\ services = {}
    /\ db = {}
    /\ last = [op |-> "none", req |-> <<>>, status |-> 0, problem |-> "", body |-> <<>>]
    /\ created = 0
    /\ keyPair = 0
    /\ feed = <<>>
    /\ clock = 0
    /\ cursor = 0
    /\ serviceProfiles = <<>>
    /\ profiles = <<>>
    /\ proxyServices = {}
    /\ servicesIsSet = TRUE
    /\ routeTable = <<>>
    /\ syncInfo = [status |-> "none", services |-> {}, readyAt |-> 0]
    /\ awaiting = 0
    /\ fetches = 0
    /\ returned = {}
    /\ reply = [op |-> "none"]

\* Modules and the plugins attached to them reading `my`.
NextPluginView ==
    \/ RegisterPlugin
    \/ Callback
    \/ \E X \in Names : HostRead(X)
    \/ \E M \in Modules, X \in Names : RestrictedRead(M, X)
    \/ \E M \in Modules, X \in Names : PluginRead(M, X)
    \/ CtorReturn
    \/ CtorThrow

SpecPluginView == InitReturned /\ [][NextPluginView]_vars

\* The started container with modules that also assign to `my`.
NextWrites ==
    \/ \E X \in Names : HostRead(X)
    \/ \E M \in Modules, X \in Names : RestrictedRead(M, X)
    \/ \E M \in Modules, X \in Names : RestrictedWrite(M, X)
    \/ CtorReturn
    \/ CtorThrow

SpecWrites == InitSandbox /\ [][NextWrites]_vars

(***************************************************************************)
(* Sandbox claims                                                          *)
(***************************************************************************)

\* C1: default deny. Every read of my[X] through the restricted view of a module
\* that has no policy entry fails with a policy error, whatever X is (a registered
\* sibling, the module itself, an unregistered name); such a read never starts a
\* construction either.
C1_DefaultDeny ==
    \A M \in Modules :
        ~policies[M].has =>
            /\ (lastRead.by = M => lastRead.result = "POLICY_ERROR")
            /\ \A i \in 1..Len(stack) : stack[i].reader # M

\* C1 witness: a module without a policy entry has read a registered, already
\* constructed sibling and was denied.
C1_Witness ==
    /\ lastRead.by \in Modules
    /\ ~policies[lastRead.by].has
    /\ lastRead.name \in Modules \ {lastRead.by}
    /\ my[lastRead.name] # 0
    /\ lastRead.result = "POLICY_ERROR"

C3_FactoryAtMostOnce ==
    \A m \in Modules : factoryCalls[m] <= 1

\* C34 as stated: re-entrant construction is detected. While the constructor of
\* module M is running, a read of M's own slot (by M itself, or by a sibling
\* constructed on M's behalf) does not enter the factory of M again: no module
\* is under construction twice at once.
C34_ReentrantReadDetected ==
    \A i, j \in 1..Len(stack) : i # j => stack[i].mod # stack[j].mod

\* C40 as stated: access decisions depend only on the policy map as it was when
\* the container was constructed. Whatever the host does to the policy object
\* afterwards, a read of my[X] by module M passes the policy check only when X
\* was in M's allowedAPIs at construction.
C40_PolicyFrozenAtConstruction ==
    (lastRead.by \in Modules /\ lastRead.result # "POLICY_ERROR") =>
        /\ ConstructedPolicies[lastRead.by].has
        /\ lastRead.name \in ConstructedPolicies[lastRead.by].allowedAPIs

BootstrapCtorRead(M) ==
    /\ \E i \in 1..booted : bootstrapList[i] = M
    /\ stack # <<>>
    /\ stack[Len(stack)].mod = M
    /\ lastRead.by = M
    /\ lastRead.name \in (allowedSet(M) \cap Modules) \ {M}

\* C20 as stated: bootstrap modules are constructed during container start, no
\* constructor runs before every slot is defined, and a policy-permitted read of
\* a sibling from a bootstrap constructor resolves to that sibling.
C20_BootstrapReadResolves ==
    /\ stack # <<>> => slots = Modules
    /\ \A M \in Modules : BootstrapCtorRead(M) => lastRead.result = "instance"

\* C20 amended: no constructor runs before every slot is defined; a
\* policy-permitted read of a sibling from a bootstrap constructor never raises
\* the not-found or the policy error and yields the sibling's cached instance,
\* or undefined when the sibling's own constructor threw; and once Phase 3 is
\* over the factory of every bootstrap module has been invoked.
C20_BootstrapAfterSlots ==
    /\ stack # <<>> => slots = Modules
    /\ \A M \in Modules :
          BootstrapCtorRead(M) =>
              /\ lastRead.result \in {"instance", "undefined"}
              /\ lastRead.result = "instance" <=> my[lastRead.name] # 0
              /\ lastRead.result = "instance" => lastRead.inst = my[lastRead.name]
    /\ (ContainerStarted /\ stack = <<>>) =>
          \A i \in 1..Len(bootstrapList) : factoryCalls[bootstrapList[i]] >= 1

\* C20 witness: the constructor of a bootstrap module read a permitted sibling
\* that no one had constructed before, and holds its instance.
C20_Witness ==
    \E M \in Modules :
        /\ BootstrapCtorRead(M)
        /\ lastRead.result = "instance"
        /\ factoryCalls[lastRead.name] = 1

\* C22 as stated: from the host callback my[X] resolves to module X for every
\* registered X whatever the policy map says, while the same read from a module
\* whose allow-set lacks X raises a policy error.
C22_HostResolvesEveryModule ==
    /\ (lastRead.by = Host /\ lastRead.name \in Modules) => lastRead.result = "instance"
    /\ \A M \in Modules :
          (lastRead.by = M /\ lastRead.name \notin allowedSet(M)) =>
              lastRead.result = "POLICY_ERROR"

\* C22 amended: the host reads the unrestricted object. Whatever the policy map
\* says, its read of a registered X never raises an error and yields X's cached
\* instance, or undefined when X's constructor threw; the same read from a module
\* whose allow-set lacks X raises a policy error.
C22_HostUnrestricted ==
    /\ (lastRead.by = Host /\ lastRead.name \in Modules) =>
          /\ lastRead.result \in {"instance", "undefined"}
          /\ lastRead.result = "instance" <=> my[lastRead.name] # 0
          /\ lastRead.result = "instance" => lastRead.inst = my[lastRead.name]
    /\ \A M \in Modules :
          (lastRead.by = M /\ lastRead.name \notin allowedSet(M)) =>
              lastRead.result = "POLICY_ERROR"

\* C22 witness: modules [A, B] with policies {A: {allowedAPIs: []}}; A is
\* constructed and the host has been handed B.
C22_Witness ==
    /\ policies["A"] = [has |-> TRUE, allowedAPIs |-> {}]
    /\ my["A"] # 0
    /\ lastRead = ReadResult(Host, "B", "instance", my["B"])

\* Phase 3 is at a module whose factory the run may not invoke again (MaxCalls).
CallBoundReached ==
    /\ stack = <<>>
    /\ booted < Len(bootstrapList)
    /\ my[bootstrapList[booted + 1]] = 0
    /\ factoryCalls[bootstrapList[booted + 1]] >= MaxCalls

\* C21: a failure in one bootstrap module's constructor does not stop the
\* others. Whatever constructors throw, the container start goes on to the
\* callback, and when the host callback is invoked the factory of every bootstrap
\* module has been invoked.
C21_BootstrapFailureIsolated ==
    /\ [](container = "started" =>
            \A i \in 1..Len(bootstrapList) : factoryCalls[bootstrapList[i]] >= 1)
    /\ <>(container = "started" \/ CallBoundReached)

\* C21 witness: the callback has been invoked, the constructor of the first
\* bootstrap module threw and the second bootstrap module is constructed.
C21_Witness ==
    /\ container = "started"
    /\ Len(bootstrapList) = 2
    /\ my[bootstrapList[1]] = 0
    /\ my[bootstrapList[2]] # 0

\* C23: plugins are applied when the target instance is created, before any
\* application code touches the service. For every module with a registered
\* valid plugin, bootstrap modules included, the cached instance (the one the
\* host obtains from my[X]) carries the plugin's wrappers: no service exists in
\* a pre-plugin state.
C23_NoPrePluginInstance ==
    \A m \in Modules :
        (my[m] # 0 /\ plugins[m] # NoPlugin) => extended[m] = plugins[m]

\* A definition that declares a static string target and a supported static mode.
WellDeclared(PluginDefinition) ==
    /\ PluginDefinition.kind = "class"
    /\ PluginDefinition.target.t = "string"
    /\ PluginDefinition.mode \in SUPPORTED_PLUGIN_EXECUTION_MODE

\* C24: a plugin definition that does not declare a static string target, or
\* whose static mode is not a supported one, is rejected: it is recorded for no
\* target and wraps no method of any module.
C24_InvalidPluginRejected ==
    \A m \in Modules :
        /\ plugins[m] # NoPlugin => WellDeclared(plugins[m])
        /\ extended[m] # NoPlugin => WellDeclared(extended[m])

\* C25: a plugin instance reads `my` through the restricted view of its target.
\* For every name X the read is refused with the policy error from the plugin
\* exactly when it is refused from the target module, that is, when X is outside
\* the target's allow-set; a plugin is never handed a sibling outside it.
C25_PluginSharesTargetView ==
    \A M \in Modules :
        lastRead.by \in {M, PluginOf[M]} =>
            /\ (lastRead.result = "POLICY_ERROR"
                    <=> lastRead.name \notin allowedSet(M))
            /\ (lastRead.result = "instance" => lastRead.name \in allowedSet(M))

\* C25 witness: the plugin attached to a module was handed a sibling the
\* module's policy permits, while the policy does not permit every module.
C25_Witness ==
    \E M \in Modules :
        /\ lastRead.by = PluginOf[M]
        /\ lastRead.result = "instance"
        /\ lastRead.name # M
        /\ Modules \ allowedSet(M) # {}

\* C19: every assignment my[X] = v through a restricted view raises a policy
\* error, whether or not X is in the module's allow-set, and leaves the backing
\* map (slots and cached instances) unchanged.
C19_WritesForbidden ==
    [][(\E M \in Modules, X \in Names : RestrictedWrite(M, X)) =>
            /\ lastWrite'.result = "POLICY_ERROR"
            /\ my' = my
            /\ slots' = slots]_vars

\* C19 witness: a module assigned a slot its policy permits, whose instance is
\* cached, and was refused.
C19_Witness ==
    /\ lastWrite.by \in Modules
    /\ lastWrite.name \in allowedSet(lastWrite.by) \cap Modules
    /\ my[lastWrite.name] # 0
    /\ lastWrite.result = "POLICY_ERROR"

(***************************************************************************)
(*          HC2 INSTANCE: CERTIFICATE AUTHORITY AND SERVICE REGISTRY       *)
(***************************************************************************)

\* certificates the instance issues in one run
MaxCerts == 1
\* registrations the instance accepts in one run
MaxReceipts == 2
\* restarts of the instance process in one run
MaxRestarts == 1
\* how far the clock advances in one run, in ms
MaxClock == 1

\* one week in ms
Week == 604800000

\* Date.prototype.toISOString and its inverse Date.parse: the ISO string has
\* millisecond precision.
toISOString(t) == <<"ISO-8601", t>>
DateParse(iso) == iso[2]

\* process.env.HC2_INSTANCE_ID
InstanceId == "hc2-instance"

\* The RSA-PSS key pair generateKeyPair() gave the running instance process (a
\* fresh pair at every start), and a key pair of somebody else.
InstanceKey == <<"instance-key", keyPair>>
ForeignKey == <<"foreign-key", 0>>

\* crypto.subtle.sign(RSA-PSS, privateKey, data), base64-encoded: the signature
\* is bound to the key pair and to the bytes signed.
Sign(key, data) == [key |-> key, over |-> data]

\* A signature string that atob() cannot decode.
NotBase64(data) == [key |-> <<"not-base64", 0>>, over |-> data]

\* HC2Utilities.ArrayBuffer.fromBase64(signature) throws on such a string.
fromBase64Throws(signature) == signature.key[1] = "not-base64"

\* A verification that checks the key and not the bytes signed.
verifyKeyOnly(key, signature, data) == signature.key = key

\* crypto.subtle.verify(RSA-PSS, publicKey, signature, data)
verify(key, signature, data) == signature.key = key /\ signature.over = data

\* sha256(JSON.stringify(x)): a digest stands for exactly the document hashed.
sha256(x) == [sha256 |-> x]

\* A service manifest: the `service` member of a certificate request and of a
\* registration request. ports and the other network members are held at
\* well-typed values throughout and left out.
Manifest(name, version, dependsOn, rpcEndpoint, hasApi) ==
    [name |-> name, version |-> version, dependsOn |-> dependsOn,
     rpcEndpoint |-> rpcEndpoint, hasApi |-> hasApi]

NoopManifest ==
    Manifest("NOOPService", Str("0.0.1"), <<"CacheService">>, "http://noop_service:3001/rpc", TRUE)

Manifests ==
    { NoopManifest,
      [NoopManifest EXCEPT !.version = Str("0.0.2")],
      [NoopManifest EXCEPT !.version = Num("1")],
      [NoopManifest EXCEPT !.hasApi = FALSE] }

Apps == {"scoop.ly", "other.app"}

\* Bodies of POST /api/v1/certs.
CertificateRequests == [app : Apps, service : {NoopManifest}]

\* HC2Instance.generateServiceCert: the request spread into the certificate body
\* beside fresh metadata, signed with the instance's private key. t1 and t2 are
\* what the two `new Date().getTime()` of the metadata block read.
generateServiceCert(certificateRequest, certificateId, t1, t2) ==
    LET cert == [app |-> certificateRequest.app,
                 service |-> certificateRequest.service,
                 metadata |-> [certificateId |-> certificateId,
                               hc2InstanceId |-> InstanceId,
                               issuedAt |-> t1,
                               expiresAt |-> t2 + Week]]
    IN [payload |-> cert, signature |-> Sign(InstanceKey, cert)]

\* HC2Instance.verifyHC2ServiceCertificate: {isVerified}, or undefined when the
\* signature cannot be decoded (the catch logs and falls off the end).
verifyHC2ServiceCertificate(cert) ==
    IF fromBase64Throws(cert.signature)
    THEN "undefined"
    ELSE IF verify(InstanceKey, cert.signature, cert.payload)
         THEN "verified" ELSE "unverified"

\* ServiceCertificateTemplate: the JSON schema built from a certificate. `app` is
\* added with addConstant (const: certBody.app); `service` is added with
\* addProperty as a description of types only.
ServiceCertificateTemplate(cert) ==
    [app |-> [const |-> cert.payload.app],
     service |-> [version |-> "string", dependsOnMinItems |-> 1]]

\* ajv.validate(schema, request) for a request {app, service}.
ajvValidate(schema, request) ==
    /\ request.app = schema.app.const
    /\ request.service.version.t = schema.service.version
    /\ Len(request.service.dependsOn) >= schema.service.dependsOnMinItems

\* HC2Instance.validateCertificateClaims: the request without its certificate,
\* validated against the template of the certificate.
validateCertificateClaims(reg) ==
    LET cert == reg.HC2ServiceCertificate
        request == [app |-> reg.app, service |-> reg.service]
    IN ajvValidate(ServiceCertificateTemplate(cert), request)

NoReceipt == [id |-> 0]

\* HC2Instance.registerService, the receipt it builds: reading service.api.methods
\* of a manifest without api throws, and the catch returns undefined. t1 is what
\* `new Date()` of createdAt reads, t2 what `new Date()` of expiresAt reads.
registerService(reg, id, t1, t2) ==
    IF ~reg.service.hasApi
    THEN NoReceipt
    ELSE [id |-> id,
          createdAt |-> toISOString(t1),
          expiresAt |-> t2 + Week,
          app |-> reg.app,
          serviceName |-> reg.service.name,
          callbackURL |-> reg.service.rpcEndpoint,
          hc2InstanceId |-> reg.HC2ServiceCertificate.payload.metadata.hc2InstanceId,
          hc2ServiceCertificateHash |-> sha256(reg.HC2ServiceCertificate)]

\* Certificates a client can put in a request: the ones issued, an issued one
\* with its payload edited under the old signature, an issued one whose signature
\* is no longer base64, and certificates signed with somebody else's key.
AlteredCerts ==
    { [c EXCEPT !.payload.service = m] : c \in issued, m \in Manifests }

UndecodableCerts ==
    { [c EXCEPT !.signature = NotBase64(c.payload)] : c \in issued }

ForeignCerts ==
    { LET body == [app |-> r.app, service |-> r.service,
                   metadata |-> [certificateId |-> 0, hc2InstanceId |-> InstanceId,
                                 issuedAt |-> 0, expiresAt |-> Week]]
      IN [payload |-> body, signature |-> Sign(ForeignKey, body)]
      : r \in CertificateRequests }

PresentedCerts == issued \cup AlteredCerts \cup UndecodableCerts \cup ForeignCerts

\* Bodies of POST /api/v1/services, after the handler has decoded the certificate:
\* any claims beside an issued certificate, and the claims of the NOOP service
\* beside any certificate a client can present.
RegistrationRequests ==
    [app : Apps, service : Manifests, HC2ServiceCertificate : issued]
    \cup [app : {"scoop.ly"}, service : {NoopManifest},
          HC2ServiceCertificate : PresentedCerts]

NoRequest == [op |-> "none", req |-> <<>>, status |-> 0, problem |-> "", body |-> <<>>]

Response(op, req, status, problem, body) ==
    [op |-> op, req |-> req, status |-> status, problem |-> problem, body |-> body]

\* POST /api/v1/certs
IssueCert ==
    /\ Cardinality(issued) < MaxCerts
    /\ \E certificateRequest \in CertificateRequests, t2 \in clock..MaxClock :
        LET serviceCertificate ==
                generateServiceCert(certificateRequest, Cardinality(issued) + 1,
                                    clock, t2)
        IN /\ issued' = issued \cup {serviceCertificate}
           /\ clock' = t2
           /\ last' = Response("issue", certificateRequest, 201, "", serviceCertificate)
    /\ UNCHANGED <<serviceRegistry, services, db, created, keyPair, feed>>
    /\ UNCHANGED notRegistry

\* POST /api/v1/certs/:id/verify. When verification returns undefined the handler
\* throws reading certStatus.isVerified, and its catch sends no response.
VerifyCert ==
    /\ \E serviceCert \in PresentedCerts :
        LET certStatus == verifyHC2ServiceCertificate(serviceCert)
        IN last' = CASE certStatus = "verified" ->
                            Response("verify", serviceCert, 204, "", <<>>)
                     [] certStatus = "unverified" ->
                            Response("verify", serviceCert, 403, "/probs/cert-invalid", <<>>)
                     [] OTHER ->
                            Response("verify", serviceCert, 0, "", <<>>)
    /\ UNCHANGED <<issued, serviceRegistry, services, db, created, keyPair, feed, clock>>
    /\ UNCHANGED notRegistry

\* The document the handler inserts: {_id, claims, receipt}.
Document(registrationRequest, receipt) ==
    [_id |-> receipt.id, claims |-> registrationRequest.service, receipt |-> receipt]

\* POST /api/v1/services, the whole handler: claims validation, registerService,
\* db.insert, the response. dbInsertThrows is the store failing the insert.
RegisterService ==
    /\ created < MaxReceipts
    /\ \E registrationRequest \in RegistrationRequests, dbInsertThrows \in BOOLEAN,
          t2 \in clock..MaxClock :
        LET serviceRegistrationReceipt ==
                registerService(registrationRequest, created + 1, clock, t2)
        IN IF ~validateCertificateClaims(registrationRequest)
           THEN /\ last' = Response("register", registrationRequest, 401,
                                    "/probs/cert-claims-invalid", NoReceipt)
                /\ UNCHANGED <<serviceRegistry, services, db, created, feed, clock>>
           ELSE IF serviceRegistrationReceipt = NoReceipt
           THEN /\ last' = Response("register", registrationRequest, 500, "", NoReceipt)
                /\ UNCHANGED <<serviceRegistry, services, db, created, feed, clock>>
           ELSE /\ serviceRegistry' = Append(serviceRegistry, serviceRegistrationReceipt)
                /\ clock' = t2
                /\ created' = created + 1
                /\ services' = services \cup {registrationRequest.service.name}
                /\ IF dbInsertThrows
                   THEN /\ UNCHANGED <<db, feed>>
                        /\ last' = Response("register", registrationRequest, 500, "",
                                            NoReceipt)
                   ELSE /\ db' = db \cup {Document(registrationRequest,
                                                    serviceRegistrationReceipt)}
                        /\ feed' = Append(feed,
                                [deleted |-> FALSE,
                                 doc |-> Document(registrationRequest,
                                                  serviceRegistrationReceipt)])
                        /\ last' = Response("register", registrationRequest, 201, "",
                                            serviceRegistrationReceipt)
    /\ UNCHANGED <<issued, keyPair>>
    /\ UNCHANGED notRegistry

\* GET /api/v1/services: Array.from(serviceRegistry.values())
getServices == serviceRegistry

ListServices ==
    /\ last' = Response("list", <<>>, 200, "", getServices)
    /\ UNCHANGED <<issued, serviceRegistry, services, db, created, keyPair, feed, clock>>
    /\ UNCHANGED notRegistry

\* A document of the store is deleted from outside the instance (the store is a
\* database of its own; the instance only ever inserts).
StoreDelete ==
    /\ \E doc \in db :
        /\ db' = db \ {doc}
        /\ feed' = Append(feed, [deleted |-> TRUE, doc |-> doc])
    /\ UNCHANGED <<issued, serviceRegistry, services, last, created, keyPair, clock>>
    /\ UNCHANGED notRegistry

\* The instance process restarts: HC2() runs again, generating a key pair and
\* constructing a new HC2Instance with an empty receipt map and name set. The
\* store keeps its documents.
Restart ==
    /\ keyPair < MaxRestarts
    /\ keyPair' = keyPair + 1
    /\ serviceRegistry' = <<>>
    /\ services' = {}
    /\ last' = NoRequest
    /\ UNCHANGED <<issued, db, created, feed, clock>>
    /\ UNCHANGED notRegistry

InitRegistry ==
    /\ issued = {}
    /\ serviceRegistry = <<>>
    /\ services = {}
    /\ db = {}
    /\ last = NoRequest
    /\ created = 0
    /\ keyPair = 0
    /\ feed = <<>>
    /\ clock = 0
    /\ cursor = 0
    /\ serviceProfiles = <<>>
    /\ profiles = <<>>
    /\ proxyServices = {}
    /\ servicesIsSet = TRUE
    /\ routeTable = <<>>
    /\ syncInfo = [status |-> "none", services |-> {}, readyAt |-> 0]
    /\ awaiting = 0
    /\ fetches = 0
    /\ returned = {}
    /\ reply = [op |-> "none"]
    /\ wrapped = NoCall
    /\ policies = [m \in Modules |-> [has |-> FALSE, allowedAPIs |-> {}]]
    /\ my = [m \in Modules |-> 0]
    /\ factoryCalls = [m \in Modules |-> 0]
    /\ stack = <<>>
    /\ lastRead = NoRead
    /\ lastWrite = NoWrite
    /\ slots = Modules
    /\ bootstrapList = <<>>
    /\ booted = 0
    /\ container = "started"
    /\ plugins = [m \in {"A", "B"} |-> [kind |-> "none", target |-> Undefined, mode |-> Undefined]]
    /\ extended = [m \in {"A", "B"} |-> [kind |-> "none", target |-> Undefined, mode |-> Undefined]]

NextRegistry ==
    \/ IssueCert
    \/ VerifyCert
    \/ RegisterService
    \/ ListServices
    \/ StoreDelete
    \/ Restart

SpecRegistry == InitRegistry /\ [][NextRegistry]_vars

\* Certificates alone: issuance, verification and restarts of the instance.
NextCerts ==
    \/ IssueCert
    \/ VerifyCert
    \/ Restart

SpecCerts == InitRegistry /\ [][NextCerts]_vars

(***************************************************************************)
(* Registry claims                                                         *)
(***************************************************************************)

\* C4 as stated: every registration the registry accepts (201 with a receipt)
\* carries a certificate that verifies under the instance's public key; a
\* forged, altered or foreign-signed certificate is never admitted, whatever
\* requests came before.
C4_AcceptedCertVerifies ==
    (last.op = "register" /\ last.status = 201) =>
        verifyHC2ServiceCertificate(last.req.HC2ServiceCertificate) = "verified"

\* The registration request and the claims of its certificate differ in a field.
ClaimsDiffer(reg) ==
    \/ reg.app # reg.HC2ServiceCertificate.payload.app
    \/ reg.service # reg.HC2ServiceCertificate.payload.service

\* C5 as stated: a registration whose app or service manifest differs from the
\* certified claims in any field is answered 401 cert-claims-invalid and adds no
\* receipt to the registry and no document to the store.
C5_ClaimMismatchRejected ==
    [][ (last'.op = "register" /\ ClaimsDiffer(last'.req)) =>
            /\ last'.status = 401
            /\ last'.problem = "/probs/cert-claims-invalid"
            /\ UNCHANGED <<serviceRegistry, services, db>> ]_vars

\* The response is that of a registration whose claims validated and whose
\* receipt was built, and which failed all the same: the store refused the insert.
StoreFailed(resp) ==
    /\ resp.op = "register"
    /\ resp.status = 500
    /\ validateCertificateClaims(resp.req)
    /\ registerService(resp.req, 1, 0, 0) # NoReceipt

\* C11 as stated: when writing the receipt document to the store fails, the
\* request is answered with an error and leaves no partial state: the receipt
\* map, the service-name set and what list_services returns are as before the
\* request.
C11_StoreFailureNoPartialState ==
    [][ StoreFailed(last') =>
            /\ last'.status >= 400
            /\ UNCHANGED <<serviceRegistry, services>>
            /\ getServices' = getServices ]_vars

\* The receipts GET /api/v1/services returns, and the receipts whose document
\* is in the store.
ListedReceipts == { getServices[i] : i \in 1..Len(getServices) }
StoredReceipts == { doc.receipt : doc \in db }

\* C12 as stated: after any sequence of registrations, store failures, store
\* deletions and restarts, a receipt is returned by GET /api/v1/services if and
\* only if its document exists in the store.
C12_ListedIffStored == ListedReceipts = StoredReceipts

\* C15: certificate verification always yields a definite result and the verify
\* endpoint always answers: 204 when the signature is decodable and matches the
\* payload under the instance key, 403 /probs/cert-invalid in every other case,
\* an undecodable signature included. No presented certificate leaves the
\* request without a response (status 0).
Genuine(cert) ==
    /\ ~fromBase64Throws(cert.signature)
    /\ verify(InstanceKey, cert.signature, cert.payload)

C15_VerifyAlwaysAnswers ==
    last.op = "verify" =>
        IF Genuine(last.req)
        THEN last.status = 204
        ELSE last.status = 403 /\ last.problem = "/probs/cert-invalid"

C17_SevenDayExpiryExact ==
    /\ \A c \in issued :
          c.payload.metadata.expiresAt = c.payload.metadata.issuedAt + Week
    /\ \A i \in 1..Len(serviceRegistry) :
          serviceRegistry[i].expiresAt - DateParse(serviceRegistry[i].createdAt) = Week

(***************************************************************************)
(*                    GATEWAY (hc2-proxy): SERVICE PROFILES                *)
(***************************************************************************)

\* The entry onRegistrationUpdate pushes: the receipt's id beside the claims
\* spread into the entry.
ProfileEntry(doc) ==
    [registrationReceiptId |-> doc.receipt.id,
     name |-> doc.claims.name,
     version |-> doc.claims.version,
     dependsOn |-> doc.claims.dependsOn,
     rpcEndpoint |-> doc.claims.rpcEndpoint]

\* Position of key `name` in the serviceProfiles object, 0 when absent.
KeyIndex(name) ==
    IF \E i \in 1..Len(serviceProfiles) : serviceProfiles[i].name = name
    THEN CHOOSE i \in 1..Len(serviceProfiles) : serviceProfiles[i].name = name
    ELSE 0

\* A variant of onRegistrationUpdate that never finds the key of a name.
onRegistrationUpdateAlwaysNewKey(changeFeedObj) ==
    IF changeFeedObj.deleted
    THEN serviceProfiles
    ELSE Append(serviceProfiles,
                [name |-> changeFeedObj.doc.claims.name,
                 entries |-> <<ProfileEntry(changeFeedObj.doc)>>])

\* onRegistrationUpdate(changeFeedObj): what serviceProfiles is afterwards. A
\* deleted change returns at once; any other change creates the array for
\* doc.claims.name when there is none and pushes an entry.
onRegistrationUpdate(changeFeedObj) ==
    IF changeFeedObj.deleted
    THEN serviceProfiles
    ELSE LET name == changeFeedObj.doc.claims.name
             k == KeyIndex(name)
             entry == ProfileEntry(changeFeedObj.doc)
         IN IF k = 0
            THEN Append(serviceProfiles, [name |-> name, entries |-> <<entry>>])
            ELSE [serviceProfiles EXCEPT ![k].entries = Append(@, entry)]

\* Object.values(serviceProfiles).flat()
RECURSIVE Flat(_)
Flat(values) ==
    IF values = <<>> THEN <<>>
    ELSE Head(values).entries \o Flat(Tail(values))

\* The changes reader hands the next change of the feed to onRegistrationUpdate.
OnChange ==
    /\ cursor < Len(feed)
    /\ cursor' = cursor + 1
    /\ serviceProfiles' = onRegistrationUpdate(feed[cursor + 1])
    /\ UNCHANGED profiles
    /\ UNCHANGED notGateway

\* GET /api/v1/profiles
ListProfiles ==
    /\ profiles' = Flat(serviceProfiles)
    /\ UNCHANGED <<cursor, serviceProfiles>>
    /\ UNCHANGED notGateway

InitGateway ==
    /\ cursor = 0
    /\ serviceProfiles = <<>>
    /\ profiles = <<>>
    /\ issued = {}
    /\ serviceRegistry = <<>>
    /\ services = {}
    /\ db = {}
    /\ last = NoRequest
    /\ created = 0
    /\ keyPair = 0
    /\ feed = <<>>
    /\ clock = 0
    /\ proxyServices = {}
    /\ servicesIsSet = TRUE
    /\ routeTable = <<>>
    /\ syncInfo = [status |-> "none", services |-> {}, readyAt |-> 0]
    /\ awaiting = 0
    /\ fetches = 0
    /\ returned = {}
    /\ reply = [op |-> "none"]
    /\ wrapped = NoCall
    /\ policies = [m \in Modules |-> [has |-> FALSE, allowedAPIs |-> {}]]
    /\ my = [m \in Modules |-> 0]
    /\ factoryCalls = [m \in Modules |-> 0]
    /\ stack = <<>>
    /\ lastRead = NoRead
    /\ lastWrite = NoWrite
    /\ slots = Modules
    /\ bootstrapList = <<>>
    /\ booted = 0
    /\ container = "started"
    /\ plugins = [m \in {"A", "B"} |-> [kind |-> "none", target |-> Undefined, mode |-> Undefined]]
    /\ extended = [m \in {"A", "B"} |-> [kind |-> "none", target |-> Undefined, mode |-> Undefined]]

NextGateway ==
    \/ IssueCert
    \/ RegisterService
    \/ StoreDelete
    \/ OnChange
    \/ ListProfiles

SpecGateway == InitGateway /\ [][NextGateway]_vars

\* Entries the profile view may hold before the reader stops resuming.
MaxEntries == 3

\* The gateway process starts (again): the module-level serviceProfiles is a new
\* empty object, nothing is read from the store, and
\* changesReader.start({includeDocs: true}) names no `since`, so the reader
\* follows the feed from the present.
GatewayStart ==
    /\ serviceProfiles' = <<>>
    /\ cursor' = Len(feed)
    /\ UNCHANGED profiles
    /\ UNCHANGED notGateway

\* At-least-once delivery: after an error the changes reader resumes from a
\* sequence it had already passed, and the change after it is emitted again.
Resume ==
    /\ cursor > 0
    /\ Len(Flat(serviceProfiles)) < MaxEntries
    /\ cursor' = cursor - 1
    /\ UNCHANGED <<serviceProfiles, profiles>>
    /\ UNCHANGED notGateway

NextFeed ==
    \/ IssueCert
    \/ RegisterService
    \/ StoreDelete
    \/ OnChange
    \/ ListProfiles
    \/ Resume

\* The gateway beside the registry, with a feed that may emit a change more
\* than once.
SpecFeed == InitGateway /\ [][NextFeed]_vars

NextGatewayStart ==
    \/ IssueCert
    \/ RegisterService
    \/ StoreDelete
    \/ OnChange
    \/ ListProfiles
    \/ GatewayStart

\* The gateway beside the registry, with starts of the gateway process at any
\* moment.
SpecGatewayStart == InitGateway /\ [][NextGatewayStart]_vars

\* The changes reader keeps emitting the changes it has not emitted yet.
SpecGatewayStartLive == SpecGatewayStart /\ WF_vars(OnChange)

(***************************************************************************)
(* Gateway claims                                                          *)
(***************************************************************************)

\* The changes the gateway has been handed, and among them the documents created.
Propagated == { feed[i] : i \in 1..cursor }
PropagatedDocs == { ch.doc : ch \in { c \in Propagated : ~c.deleted } }

\* What GET /api/v1/profiles answers in this state.
Listing == Flat(serviceProfiles)

LiveDocs ==
    { doc \in PropagatedDocs :
        ~\E ch \in Propagated : ch.deleted /\ ch.doc._id = doc._id }

C14_DeletedNotListed ==
    \A ch \in Propagated :
        ch.deleted =>
            \A i \in 1..Len(Listing) :
                Listing[i].registrationReceiptId # ch.doc.receipt.id

(***************************************************************************)
(*                        CLIENT SDK (HC2Proxy.my)                         *)
(***************************************************************************)

\* Names a caller reads on hc2.my: two services, and a well-known member name.
ServiceNames == {"NOOPService", "FOHService"}
MyKeys == ServiceNames \cup {"toJSON"}

\* Member names a caller invokes on what hc2.my[X] gave.
MethodNames == {"hello", "status", "toString", "hasError"}

\* Params of a call: none (the dispatcher defaults to {}), or an object.
ParamValues == {Undefined, Obj("receiver")}

EXCLUDED_BUILTIN_METHODS == {"toJSON", "toString", "valueOf", "inspect", "constructor"}

\* Members every object inherits from Object.prototype as functions.
ObjectPrototypeMethods == {"toString", "valueOf", "constructor"}

JsUndefined == [t |-> "undefined"]
JsFunction(f) == [t |-> "function", f |-> f]
JsValue(tag) == [t |-> tag]

\* No error descriptor given to the HC2Result constructor.
NoError == [code |-> "none", message |-> Undefined, retryable |-> FALSE]

\* new HC2Result({service, method, source, data, error}): hasError is
\* Boolean(error); data is null with an error and `data ?? {}` without.
HC2Result(service, method, source, data, error) ==
    LET hasError == error.code # "none"
    IN [t |-> "HC2Result",
        service |-> service, method |-> method, source |-> source,
        hasError |-> hasError,
        data |-> IF hasError THEN Null
                 ELSE IF data \in {Undefined, Null} THEN Obj("{}") ELSE data,
        error |-> IF hasError
                  THEN [code |-> error.code, message |-> error.message,
                        retryable |-> error.retryable, source |-> source]
                  ELSE Null]

\* HC2Result.exception({service, method, exception}): the descriptor it builds
\* has code, title, source and retryable; the constructor reads error.message,
\* which the descriptor does not have.
HC2ResultException(service, method) ==
    HC2Result(service, method, "sdk", Undefined,
              [code |-> "HC2_SDK_INTERNAL_ERROR", message |-> Undefined,
               retryable |-> FALSE])

\* The get trap of hc2.my. ctx.services.has(...) throws when the public field
\* services holds a value without has(); the catch answers with
\* HC2Result.exception.
myGet(serviceNameOrProp) ==
    IF serviceNameOrProp \in EXCLUDED_BUILTIN_METHODS
    THEN IF serviceNameOrProp \in ObjectPrototypeMethods
         THEN JsFunction("Object.prototype") ELSE JsUndefined
    ELSE IF ~servicesIsSet
    THEN HC2ResultException(serviceNameOrProp, "null")
    ELSE IF serviceNameOrProp \in proxyServices
    THEN [t |-> "ServiceProxy", serviceName |-> serviceNameOrProp,
          hasApi |-> serviceNameOrProp \in DOMAIN routeTable,
          methods |-> IF serviceNameOrProp \in DOMAIN routeTable
                      THEN routeTable[serviceNameOrProp] ELSE {}]
    ELSE HC2Result(serviceNameOrProp, "null", "sdk", Undefined,
                   [code |-> "HC2_ROUTE_NOT_FOUND",
                    message |-> Str("Service not known to HC2Proxy SDK"),
                    retryable |-> TRUE])

\* The get trap of a ServiceProxy: Return(member) or the TypeError of reading
\* api.methods when the route table had no schema for the service.
ServiceProxyGet(proxy, methodName) ==
    IF methodName \in EXCLUDED_BUILTIN_METHODS
    THEN Return(IF methodName \in ObjectPrototypeMethods
                THEN JsFunction("Object.prototype") ELSE JsUndefined)
    ELSE IF ~proxy.hasApi
    THEN Throw(Err("TypeError"))
    ELSE IF methodName \notin proxy.methods
    THEN Return(JsUndefined)
    ELSE Return(JsFunction("rpc"))

\* Reading member m of the value hc2.my[X] gave.
GetMember(value, m) ==
    CASE value.t = "undefined" -> Throw(Err("TypeError"))
      [] value.t = "ServiceProxy" -> ServiceProxyGet(value, m)
      [] value.t = "HC2Result" ->
            IF m \in {"hasError", "data", "error", "__metadata"}
            THEN Return(JsValue("property"))
            ELSE IF m \in ObjectPrototypeMethods
            THEN Return(JsFunction("Object.prototype"))
            ELSE Return(JsUndefined)
      [] OTHER ->
            IF m \in ObjectPrototypeMethods
            THEN Return(JsFunction("Object.prototype"))
            ELSE Return(JsUndefined)

\* What rpcClient.call does: resolves with the JSON-RPC response, resolves with
\* undefined (the response carried an error), or rejects.
RpcOutcomes ==
    { Return(JsValue("json-rpc response")), Return(JsUndefined),
      Throw(Err("fetch failed")) }

\* Calling the member: a non-function is not callable; the dispatcher function
\* returns what rpcClient.call resolved with, and undefined when it rejected.
Invoke(member, rpc) ==
    IF member.t # "function"
    THEN Throw(Err("TypeError"))
    ELSE IF member.f = "rpc"
    THEN IF rpc.kind = "throw" THEN Return(JsUndefined) ELSE rpc
    ELSE Return(JsValue("string"))

\* hc2.my[X].m(params), start to end.
myCall(X, m, rpc) ==
    LET got == GetMember(myGet(X), m)
    IN IF got.kind = "throw" THEN got ELSE Invoke(got.val, rpc)

\* How many instances the profile of a service lists.
MaxInstances == 2

\* What the profile of the service holds beyond the method names: how many
\* instances it lists and whether the method's schema is marked retryable. The
\* dispatcher reads neither.
ApiExtras == [instances : 0..MaxInstances, retryable : BOOLEAN]

\* my[X].m is the dispatcher function: X is a known service with a schema for m.
IsDispatcher(X, m) ==
    LET got == GetMember(myGet(X), m)
    IN got.kind = "return" /\ got.val = JsFunction("rpc")

\* The profile behind a call: that of the service when my[X].m is its
\* dispatcher, none otherwise.
ApiOf(X, m) ==
    IF IsDispatcher(X, m) THEN ApiExtras ELSE {[instances |-> 0, retryable |-> FALSE]}

\* The RPC requests one call of my[X].m(params) sends: the dispatcher awaits one
\* rpcClient.call and returns; every other member sends none.
rpcAttempts(X, m) == IF IsDispatcher(X, m) THEN 1 ELSE 0

SdkCall ==
    /\ \E X \in MyKeys, m \in MethodNames, params \in ParamValues, rpc \in RpcOutcomes :
       \E api \in ApiOf(X, m) :
        reply' = [op |-> "call", service |-> X, method |-> m, params |-> params,
                  rpc |-> rpc, got |-> myGet(X), outcome |-> myCall(X, m, rpc),
                  dispatched |-> IsDispatcher(X, m),
                  instances |-> api.instances, retryable |-> api.retryable,
                  attempts |-> rpcAttempts(X, m)]
    /\ UNCHANGED <<proxyServices, servicesIsSet, routeTable, syncInfo, awaiting, fetches,
                   returned>>
    /\ UNCHANGED notSDK

\* reg.payload.HC2ServiceCertificate as the caller passes it: the base64 of the
\* JSON of a certificate, a string atob() rejects, base64 of text that is not
\* JSON, and base64 of a JSON object without payload.metadata.
CertificateStrings == {"certificate", "not-base64", "not-json", "no-metadata"}

\* JSON.parse(atob(s)): the decoded certificate, or the exception of atob or of
\* JSON.parse.
ParseCertificate(certString) ==
    CASE certString = "not-base64" -> Throw(Err("InvalidCharacterError"))
      [] certString = "not-json" -> Throw(Err("SyntaxError"))
      [] certString = "no-metadata" -> Return([t |-> "object", hasMetadata |-> FALSE])
      [] OTHER -> Return([t |-> "object", hasMetadata |-> TRUE])

\* What a fetch() of the instance can give: a response with a status, or a
\* rejection (instance unreachable, no response before the timeout).
Status(n) == [kind |-> "response", status |-> n]
FetchRejects == [kind |-> "rejects", status |-> 0]
VerifyOutcomes == {Status(204), Status(403), Status(500), FetchRejects}
RegistrationOutcomes == {Status(201), Status(401), Status(500), FetchRejects}

Receipt == [t |-> "receipt"]
EmptyObject == [t |-> "{}"]

\* What register() did: the requests it sent, in order, and how it ended.
Registered(requests, outcome) == [requests |-> requests, outcome |-> outcome]

\* Mutant: the registration is posted whatever the verify request answered.
registerUnconditionally(certString, verification, registration) ==
    LET parsed == ParseCertificate(certString)
    IN IF parsed.kind = "throw" THEN Registered(<<>>, parsed)
       ELSE IF ~parsed.val.hasMetadata THEN Registered(<<>>, Return(JsUndefined))
       ELSE IF registration.kind = "rejects"
       THEN Registered(<<"verify", "services">>, Return(JsUndefined))
       ELSE IF registration.status >= 400
       THEN Registered(<<"verify", "services">>, Return(EmptyObject))
       ELSE Registered(<<"verify", "services">>, Return(Receipt))

\* HC2Proxy.register. The certificate is parsed before the try block; inside it,
\* reading payload.metadata.certificateId, the two fetches and the reading of
\* the bodies: an exception there is logged and the function returns undefined.
register(certString, verification, registration) ==
    LET parsed == ParseCertificate(certString)
    IN IF parsed.kind = "throw" THEN Registered(<<>>, parsed)
       ELSE IF ~parsed.val.hasMetadata THEN Registered(<<>>, Return(JsUndefined))
       ELSE IF verification.kind = "rejects"
       THEN Registered(<<"verify">>, Return(JsUndefined))
       ELSE IF verification.status >= 400
       THEN Registered(<<"verify">>, Return(EmptyObject))
       ELSE IF registration.kind = "rejects"
       THEN Registered(<<"verify", "services">>, Return(JsUndefined))
       ELSE IF registration.status >= 400
       THEN Registered(<<"verify", "services">>, Return(EmptyObject))
       ELSE Registered(<<"verify", "services">>, Return(Receipt))

\* await hc2.register(reg), start to end.
SdkRegister ==
    /\ \E certString \in CertificateStrings, verification \in VerifyOutcomes,
          registration \in RegistrationOutcomes :
        LET done == register(certString, verification, registration)
        IN reply' = [op |-> "register", cert |-> certString,
                     verification |-> verification, registration |-> registration,
                     requests |-> done.requests, outcome |-> done.outcome]
    /\ UNCHANGED <<proxyServices, servicesIsSet, routeTable, syncInfo, awaiting, fetches,
                   returned>>
    /\ UNCHANGED notSDK

\* What GET /api/v1/profiles can answer: a schema (method names) for each of some
\* services.
MethodSets == {{"hello"}, {"hello", "status"}}
ProfileSets == UNION { [S -> MethodSets] : S \in SUBSET ServiceNames }

\* How many callers of ready() the model lets await one fetch.
MaxCallers == 2

\* What the caller's clock reads when the fetch settles (SyncInfo.readyAt).
ReadyTimes == 1..2

NoSyncInfo == [status |-> "none", services |-> {}, readyAt |-> 0]

\* Mutant: the in-flight promise is not memoized; every caller that finds no
\* SyncInfo cached issues a fetch of its own.
ReadyNoMemo ==
    /\ IF syncInfo # NoSyncInfo
       THEN /\ reply' = [op |-> "ready", callers |-> 1, outcome |-> Return(syncInfo)]
            /\ returned' = returned \cup {syncInfo}
            /\ UNCHANGED <<awaiting, fetches>>
       ELSE /\ awaiting < MaxCallers
            /\ awaiting' = awaiting + 1
            /\ fetches' = fetches + 1
            /\ UNCHANGED <<returned, reply>>
    /\ UNCHANGED <<proxyServices, servicesIsSet, routeTable, syncInfo>>
    /\ UNCHANGED notSDK

\* A call of hc2.ready(), up to its first await. With a SyncInfo cached the call
\* returns it; with a fetch in flight the caller awaits the memoized promise;
\* otherwise the call issues GET /api/v1/profiles and memoizes the promise.
Ready ==
    /\ IF syncInfo # NoSyncInfo
       THEN /\ reply' = [op |-> "ready", callers |-> 1, outcome |-> Return(syncInfo)]
            /\ returned' = returned \cup {syncInfo}
            /\ UNCHANGED <<awaiting, fetches>>
       ELSE IF awaiting > 0
       THEN /\ awaiting < MaxCallers
            /\ awaiting' = awaiting + 1
            /\ UNCHANGED <<fetches, returned, reply>>
       ELSE /\ awaiting' = 1
            /\ fetches' = fetches + 1
            /\ UNCHANGED <<returned, reply>>
    /\ UNCHANGED <<proxyServices, servicesIsSet, routeTable, syncInfo>>
    /\ UNCHANGED notSDK

\* The profiles fetch settles. On success the route table is rebuilt in one step
\* (clear, then repopulate) and the SyncInfo is fresh; on failure the table is
\* left as it was and the SyncInfo is stale. Every caller awaiting the promise
\* is given that SyncInfo; ready() does not throw.
ProfilesSettled ==
    /\ awaiting > 0
    /\ \E fetched \in ProfileSets, fetchFails \in BOOLEAN, t \in ReadyTimes :
          /\ IF fetchFails
             THEN /\ syncInfo' = [status |-> "stale", services |-> proxyServices,
                                  readyAt |-> t]
                  /\ UNCHANGED <<proxyServices, routeTable>>
             ELSE /\ routeTable' = fetched
                  /\ proxyServices' = DOMAIN fetched
                  /\ syncInfo' = [status |-> "fresh", services |-> DOMAIN fetched,
                                  readyAt |-> t]
          /\ reply' = [op |-> "ready", callers |-> awaiting,
                       outcome |-> Return(syncInfo')]
          /\ returned' = returned \cup {syncInfo'}
    /\ awaiting' = 0
    /\ UNCHANGED <<fetches, servicesIsSet>>
    /\ UNCHANGED notSDK

InitSDK ==
    /\ proxyServices = {}
    /\ servicesIsSet = TRUE
    /\ routeTable = <<>>
    /\ syncInfo = [status |-> "none", services |-> {}, readyAt |-> 0]
    /\ awaiting = 0
    /\ fetches = 0
    /\ returned = {}
    /\ reply = [op |-> "none"]
    /\ issued = {}
    /\ serviceRegistry = <<>>
    /\ services = {}
    /\ db = {}
    /\ last = NoRequest
    /\ created = 0
    /\ keyPair = 0
    /\ feed = <<>>
    /\ clock = 0
    /\ cursor = 0
    /\ serviceProfiles = <<>>
    /\ profiles = <<>>
    /\ wrapped = NoCall
    /\ policies = [m \in Modules |-> [has |-> FALSE, allowedAPIs |-> {}]]
    /\ my = [m \in Modules |-> 0]
    /\ factoryCalls = [m \in Modules |-> 0]
    /\ stack = <<>>
    /\ lastRead = NoRead
    /\ lastWrite = NoWrite
    /\ slots = Modules
    /\ bootstrapList = <<>>
    /\ booted = 0
    /\ container = "started"
    /\ plugins = [m \in {"A", "B"} |-> [kind |-> "none", target |-> Undefined, mode |-> Undefined]]
    /\ extended = [m \in {"A", "B"} |-> [kind |-> "none", target |-> Undefined, mode |-> Undefined]]

NextSDK ==
    \/ Ready
    \/ ProfilesSettled
    \/ SdkCall
    \/ SdkRegister

SpecSDK == InitSDK /\ [][NextSDK]_vars

\* The host assigns the public field hc2.services: a value that is not a Set
\* (an array of names, say), or a Set again.
AssignServices ==
    /\ servicesIsSet' = ~servicesIsSet
    /\ UNCHANGED <<proxyServices, routeTable, syncInfo, awaiting, fetches, returned, reply>>
    /\ UNCHANGED notSDK

NextEnvelope ==
    \/ Ready
    \/ ProfilesSettled
    \/ SdkCall
    \/ AssignServices

\* The SDK with a host that also writes the public fields of the proxy.
SpecEnvelope == InitSDK /\ [][NextEnvelope]_vars

(***************************************************************************)
(* SDK claims                                                              *)
(***************************************************************************)

\* C6 as stated: the SDK never throws. For every service name X, method name m
\* and params, my[X].m(params) returns (does not raise) a result envelope, with
\* data null exactly when hasError is true.
C6_SdkNeverThrows ==
    reply.op = "call" =>
        /\ reply.outcome.kind = "return"
        /\ reply.outcome.val.t = "HC2Result"
        /\ (reply.outcome.val.data = Null <=> reply.outcome.val.hasError)

\* C26: invoking a method on a service name unknown to the route table (for
\* example my.NOOPService.hello({receiver: 'host'}) before ready()) returns an
\* error envelope with hasError = true, error.code = HC2_ROUTE_NOT_FOUND, source
\* sdk and retryable = true.
C26_UnknownServiceEnvelope ==
    (/\ reply.op = "call"
     /\ reply.service \in ServiceNames \ proxyServices
     /\ reply.method = "hello") =>
        /\ reply.outcome.kind = "return"
        /\ reply.outcome.val.t = "HC2Result"
        /\ reply.outcome.val.hasError
        /\ reply.outcome.val.error =
              [code |-> "HC2_ROUTE_NOT_FOUND",
               message |-> Str("Service not known to HC2Proxy SDK"),
               retryable |-> TRUE, source |-> "sdk"]

\* C27: for a known service, invoking a method name that the service schema
\* does not list returns an error envelope with code HC2_METHOD_NOT_FOUND.
C27_UnknownMethodEnvelope ==
    (/\ reply.op = "call"
     /\ reply.service \in proxyServices
     /\ reply.service \in DOMAIN routeTable
     /\ reply.method \notin routeTable[reply.service] \cup EXCLUDED_BUILTIN_METHODS) =>
        /\ reply.outcome.kind = "return"
        /\ reply.outcome.val.t = "HC2Result"
        /\ reply.outcome.val.hasError
        /\ reply.outcome.val.error.code = "HC2_METHOD_NOT_FOUND"

\* The verify request was answered and not refused.
VerifySucceeded(resp) == resp.kind = "response" /\ resp.status < 400

\* C28: registration protocol order. register first POSTs the certificate to
\* /api/v1/certs/{certId}/verify and POSTs the registration to /api/v1/services
\* only after the verify request succeeded; when verification is refused or
\* fails, no registration request is sent and no receipt is returned.
C28_VerifyBeforeRegister ==
    reply.op = "register" =>
        /\ reply.requests \in {<<>>, <<"verify">>, <<"verify", "services">>}
        /\ (Len(reply.requests) = 2 => VerifySucceeded(reply.verification))
        /\ (Len(reply.requests) = 1 => ~VerifySucceeded(reply.verification))
        /\ (reply.outcome = Return(Receipt) =>
                /\ reply.requests = <<"verify", "services">>
                /\ reply.registration = Status(201))

\* C28 witness: the verify request was refused with 403 while the instance
\* would have accepted the registration; only the verify request was sent.
C28_Witness ==
    /\ reply.op = "register"
    /\ reply.verification = Status(403)
    /\ reply.registration = Status(201)
    /\ reply.requests = <<"verify">>
    /\ reply.outcome = Return(EmptyObject)

\* C29: register never throws. For every input, a certificate that is not
\* decodable base64/JSON or lacks metadata included, and for every failure of
\* either request, register returns a value to the caller.
C29_RegisterNeverThrows ==
    reply.op = "register" => reply.outcome.kind = "return"

\* C30: ready() is idempotent and deduplicates its callers. For any number of
\* sequential or concurrent ready() calls at most one fetch of /api/v1/profiles
\* is issued, and every call returns the same SyncInfo (same readyAt, same
\* services): the one cached.
C30_ReadyDeduplicates ==
    /\ fetches <= 1
    /\ Cardinality(returned) <= 1
    /\ (returned # {} => returned = {syncInfo})
    /\ (awaiting > 0 => fetches = 1 /\ returned = {})

\* C30 witness: two concurrent callers awaited one fetch and were both given
\* the fresh SyncInfo it produced.
C30_Witness ==
    /\ fetches = 1
    /\ reply.op = "ready"
    /\ reply.callers = 2
    /\ reply.outcome.val.status = "fresh"
    /\ returned = {syncInfo}

\* The one RPC of the dispatch was answered with a response body.
RpcSucceeded == reply.rpc.kind = "return" /\ reply.rpc.val # JsUndefined

\* The outcome of the call is an error envelope with this code, retryable.
ErrorEnvelope(code) ==
    /\ reply.outcome.kind = "return"
    /\ reply.outcome.val.t = "HC2Result"
    /\ reply.outcome.val.hasError
    /\ reply.outcome.val.error.code = code
    /\ reply.outcome.val.error.retryable

\* C31 as stated: per-method dispatch tries the known instances one after the
\* other; an instance is contacted only after the one before it failed, and the
\* first success ends the dispatch with a success envelope wrapping the
\* response body, so a successful first RPC is the only RPC.
C31_SequentialDispatch ==
    (reply.op = "call" /\ reply.dispatched /\ reply.instances >= 1) =>
        /\ reply.attempts <= reply.instances
        /\ (RpcSucceeded =>
                /\ reply.attempts = 1
                /\ reply.outcome.kind = "return"
                /\ reply.outcome.val.t = "HC2Result"
                /\ ~reply.outcome.val.hasError
                /\ reply.outcome.val.data = reply.rpc.val)

\* C32 as stated: a method not marked retryable is never sent to a second
\* instance; on the first per-instance failure the dispatch returns an error
\* envelope and contacts no further instance.
C32_NotRetryableFailsFast ==
    (/\ reply.op = "call" /\ reply.dispatched
     /\ reply.instances >= 1 /\ ~reply.retryable /\ ~RpcSucceeded) =>
        /\ reply.attempts = 1
        /\ reply.outcome.kind = "return"
        /\ reply.outcome.val.t = "HC2Result"
        /\ reply.outcome.val.hasError

\* C33 as stated: with N known instances at most N RPC attempts are made; an
\* empty instance list yields HC2_ROUTE_NOT_FOUND (retryable); when every
\* instance failed for a retryable method the dispatch ends with
\* HC2_ALL_INSTANCES_FAILED (retryable).
C33_DispatchTerminates ==
    (reply.op = "call" /\ reply.dispatched) =>
        /\ reply.attempts <= reply.instances
        /\ (reply.instances = 0 => ErrorEnvelope("HC2_ROUTE_NOT_FOUND"))
        /\ (reply.instances = 1 /\ reply.retryable /\ ~RpcSucceeded =>
                ErrorEnvelope("HC2_ALL_INSTANCES_FAILED"))

\* C37 as stated: the change propagator is an idempotent reducer over
\* (serviceName, receiptId): however often the change of a receipt is applied,
\* the profile view holds no more than one instance entry for that receipt.
C37_IdempotentReducer ==
    \A i, j \in 1..Len(Flat(serviceProfiles)) :
        Flat(serviceProfiles)[i].registrationReceiptId
            = Flat(serviceProfiles)[j].registrationReceiptId => i = j

\* Receipt ids the registry can hand out.
ReceiptIds == 1..MaxReceipts

Stored(id) == \E doc \in db : doc._id = id

Visible(id) ==
    \E i \in 1..Len(Flat(serviceProfiles)) :
        Flat(serviceProfiles)[i].registrationReceiptId = id

\* C38 as stated: every receipt present in the store eventually appears as a
\* profile instance in the gateway's view, receipts written before the gateway
\* started its subscription included.
C38_StoredEventuallyVisible ==
    \A id \in ReceiptIds : Stored(id) ~> Visible(id)

\* export const HC2ErrorCode: the codes the SDK defines.
HC2ErrorCode ==
    {"HC2_ROUTE_NOT_FOUND", "HC2_METHOD_NOT_FOUND", "HC2_SDK_INTERNAL_ERROR",
     "HC2_SERVICE_UNAVAILABLE", "HC2_RPC_TIMEOUT", "HC2_RPC_ERROR",
     "HC2_INVALID_PARAMS", "HC2_SERVICE_ERROR"}

\* C39 as stated: the code of every error envelope the SDK returns is a member
\* of HC2ErrorCode, and every error envelope carries a defined code, message,
\* source and retryable flag, envelopes built from caught exceptions included.
C39_ClosedErrorCodes ==
    (reply.op = "call" /\ reply.got.t = "HC2Result" /\ reply.got.hasError) =>
        /\ reply.got.error.code \in HC2ErrorCode
        /\ reply.got.error.message # Undefined
        /\ reply.got.error.source \in {"sdk", "proxy", "service"}
        /\ reply.got.error.retryable \in BOOLEAN

====
